---- MODULE Spec2Model ----
(***************************************************************************)
(* Deterministic UMLS grounding (UMLSExactMatcher) and the part of the     *)
(* hybrid KG pipeline that drives it.                                      *)
(*                                                                         *)
(* A Python str is a sequence of one-character strings: <<"c","m">> is     *)
(* "cm".  Characters are ordered by code point (Chars lists the alphabet   *)
(* of the model in code-point order).                                      *)
(***************************************************************************)
EXTENDS Integers, Sequences, FiniteSets, TLC

VARIABLES
    pc,                 \* position of the running call
    mrconso,            \* the lines of the file at mrconso_path
    sab_preference,     \* self.sab_preference
    top_k,              \* self.top_k
    use_mrsty_filter,   \* self.use_mrsty_filter
    cui_to_tuis,        \* self.cui_to_tuis
    anatomy_tuis,       \* self.anatomy_tuis
    observation_tuis,   \* self.observation_tuis
    all_entities,       \* pipeline: one sequence of entities per document
    mentions,           \* argument of map_mentions_to_cui
    mention_types,      \* argument of map_mentions_to_cui
    unique_mentions,    \* sorted(set(mentions))
    mention_keys,       \* mention -> build_keys record
    key_to_mentions,    \* key string -> sequence of <<mention, ktype>>
    alias_to_candidates,\* mention -> sequence of candidate records
    seen_pairs,         \* set of <<mention, cui, sab, tty>>
    handle,             \* number of lines of mrconso already read
    idx,                \* loop index into unique_mentions
    mention2cui,        \* the result map under construction
    entities_with_cui,  \* pipeline: enriched entities, one sequence per document
    last_call,          \* the previous finished call: inputs and returned map
    text,               \* text layer: the input string
    text_out            \* text layer: what the functions returned for text

vars == <<pc, mrconso, sab_preference, top_k, use_mrsty_filter, cui_to_tuis,
          anatomy_tuis, observation_tuis, all_entities,
          mentions, mention_types, unique_mentions, mention_keys,
          key_to_mentions, alias_to_candidates, seen_pairs, handle, idx,
          mention2cui, entities_with_cui, last_call, text, text_out>>

----------------------------------------------------------------------------
(* Characters *)

Chars ==
    <<"\t", "\n", " ", "!", "-", ".", "/",
      "0", "1", "2", "3", "4", "5", "6", "7", "8", "9",
      "A", "B", "C", "D", "E", "F", "G", "H", "I", "J", "K", "L", "M",
      "N", "O", "P", "Q", "R", "S", "T", "U", "V", "W", "X", "Y", "Z",
      "_",
      "a", "b", "c", "d", "e", "f", "g", "h", "i", "j", "k", "l", "m",
      "n", "o", "p", "q", "r", "s", "t", "u", "v", "w", "x", "y", "z",
      "|">>

Code(c) == CHOOSE i \in 1..Len(Chars) : Chars[i] = c

Digits == {"0", "1", "2", "3", "4", "5", "6", "7", "8", "9"}
UpperLetters ==
    {"A", "B", "C", "D", "E", "F", "G", "H", "I", "J", "K", "L", "M",
     "N", "O", "P", "Q", "R", "S", "T", "U", "V", "W", "X", "Y", "Z"}
LowerLetters ==
    {"a", "b", "c", "d", "e", "f", "g", "h", "i", "j", "k", "l", "m",
     "n", "o", "p", "q", "r", "s", "t", "u", "v", "w", "x", "y", "z"}
Whitespace == {" ", "\t", "\n"}
WordChars == Digits \cup UpperLetters \cup LowerLetters \cup {"_"}

\* str.lower() on one character
LowerChar(c) == IF c \in UpperLetters THEN Chars[Code(c) + 27] ELSE c

----------------------------------------------------------------------------
(* Python str primitives *)

Lower(s) == [i \in 1..Len(s) |-> LowerChar(s[i])]

RECURSIVE LStrip(_)
LStrip(s) ==
    IF s # <<>> /\ Head(s) \in Whitespace THEN LStrip(Tail(s)) ELSE s

RECURSIVE RStrip(_)
RStrip(s) ==
    IF s # <<>> /\ s[Len(s)] \in Whitespace
    THEN RStrip(SubSeq(s, 1, Len(s) - 1))
    ELSE s

Strip(s) == RStrip(LStrip(s))

\* re.sub(r"\s+", " ", s)
RECURSIVE CollapseWs(_)
CollapseWs(s) ==
    IF s = <<>> THEN <<>>
    ELSE IF Head(s) \in Whitespace
         THEN <<" ">> \o CollapseWs(LStrip(s))
         ELSE <<Head(s)>> \o CollapseWs(Tail(s))

\* re.sub(r"[^...]", "", s): delete every character outside keep
DeleteOutside(s, keep) == SelectSeq(s, LAMBDA c : c \in keep)

\* re.sub(r"[...]", " ", s): put a space for every character that is in hit
SpaceFor(s, hit) == [i \in 1..Len(s) |-> IF s[i] \in hit THEN " " ELSE s[i]]

\* str.split(): the maximal runs of non-whitespace, in order
RECURSIVE SplitWs(_)
SplitWs(s) ==
    LET t == LStrip(s)
        n == IF \E i \in 1..Len(t) : t[i] \in Whitespace
             THEN (CHOOSE i \in 1..Len(t) :
                      /\ t[i] \in Whitespace
                      /\ \A j \in 1..(i - 1) : t[j] \notin Whitespace) - 1
             ELSE Len(t)
    IN  IF t = <<>> THEN <<>>
        ELSE <<SubSeq(t, 1, n)>> \o SplitWs(SubSeq(t, n + 1, Len(t)))

\* str.split(sep) for a one-character sep: always at least one part
RECURSIVE SplitOn(_, _)
SplitOn(s, sep) ==
    IF \E i \in 1..Len(s) : s[i] = sep
    THEN LET n == CHOOSE i \in 1..Len(s) :
                      s[i] = sep /\ \A j \in 1..(i - 1) : s[j] # sep
         IN  <<SubSeq(s, 1, n - 1)>> \o SplitOn(SubSeq(s, n + 1, Len(s)), sep)
    ELSE <<s>>

\* " ".join(toks)
RECURSIVE JoinSp(_)
JoinSp(toks) ==
    IF toks = <<>> THEN <<>>
    ELSE IF Len(toks) = 1 THEN toks[1]
    ELSE toks[1] \o <<" ">> \o JoinSp(Tail(toks))

\* a < b, Python's comparison of two str (by code point, a prefix is smaller)
RECURSIVE StrLess(_, _)
StrLess(a, b) ==
    IF b = <<>> THEN FALSE
    ELSE IF a = <<>> THEN TRUE
    ELSE IF Head(a) = Head(b) THEN StrLess(Tail(a), Tail(b))
    ELSE Code(Head(a)) < Code(Head(b))

----------------------------------------------------------------------------
(* UMLSExactMatcher: class constants *)

STOP ==
    { <<"n","o">>, <<"n","o","t">>, <<"w","i","t","h","o","u","t">>,
      <<"w","i","t","h">>, <<"o","f">>, <<"i","n">>, <<"o","n">>,
      <<"a","t">>, <<"t","h","e">>, <<"a">>, <<"a","n">>, <<"a","n","d">>,
      <<"o","r">>, <<"t","o">>, <<"f","o","r">> }

LATERAL ==
    { <<"l","e","f","t">>, <<"r","i","g","h","t">>,
      <<"b","i","l","a","t","e","r","a","l">>, <<"b","l">>, <<"b">>,
      <<"l">>, <<"r">> }

SEVERITY ==
    { <<"m","i","l","d">>, <<"m","i","l","d","l","y">>,
      <<"m","o","d","e","r","a","t","e">>,
      <<"m","o","d","e","r","a","t","e","l","y">>,
      <<"s","e","v","e","r","e">>, <<"m","a","r","k","e","d">>,
      <<"s","l","i","g","h","t">>, <<"s","m","a","l","l">>,
      <<"t","i","n","y">>, <<"m","i","n","i","m","a","l">>,
      <<"p","o","s","s","i","b","l","e">>, <<"l","i","k","e","l","y">> }

\* MEAS_RE = re.compile(r"\b\d+(\.\d+)?\s*(mm|cm|m)\b")
UnitMM == <<"m","m">>
UnitCM == <<"c","m">>
UnitM == <<"m">>
MeasUnits == {UnitMM, UnitCM, UnitM}

\* KEYTYPE_PRIORITY.get(kind, 9)
KEYTYPE_PRIORITY(kind) ==
    CASE kind = "full_norm" -> 0
      [] kind = "full_can" -> 1
      [] kind = "head" -> 2
      [] OTHER -> 9

\* Optional values: None is the empty tuple, a present value v is <<v>>
None == <<>>
Some(v) == <<v>>

SNOMEDCT_US == <<"S","N","O","M","E","D","C","T","_","U","S">>
RXNORM == <<"R","X","N","O","R","M">>
MSH == <<"M","S","H">>
DefaultSabPreference == <<SNOMEDCT_US, RXNORM, MSH>>
DefaultTopK == 5

\* __init__: sab_preference or [...]  (None and [] both give the default)
InitSabPreference(arg) ==
    IF arg = None \/ arg = Some(<<>>) THEN Some(DefaultSabPreference) ELSE arg

PreferredTtys == { <<"P","T">>, <<"P","N">>, <<"H","T">>, <<"M","H">> }
FlagY == <<"Y">>
ENG == <<"E","N","G">>
ANATOMY == <<"A","N","A","T","O","M","Y">>
OBSERVATION == <<"O","B","S","E","R","V","A","T","I","O","N">>

----------------------------------------------------------------------------
(* UMLSExactMatcher: text functions *)

normalize_text(s) ==
    LET s1 == Strip(Lower(s))
        s2 == CollapseWs(s1)
    IN  DeleteOutside(s2, LowerLetters \cup Digits \cup Whitespace \cup {"-"})

\* canonicalize_surface without lower()
canonicalize_surface_no_lower(s) ==
    LET s1 == Strip(s)
        s2 == SpaceFor(s1, {"-", "/"})
        s3 == [i \in 1..Len(s2) |->
                 IF s2[i] \in LowerLetters \cup Digits \cup Whitespace
                 THEN s2[i] ELSE " "]
    IN  Strip(CollapseWs(s3))

\* canonicalize_surface with re.sub(r"[^a-z0-9\s]", "", s)
canonicalize_surface_deleting(s) ==
    LET s1 == Strip(Lower(s))
        s2 == SpaceFor(s1, {"-", "/"})
        s3 == DeleteOutside(s2, LowerLetters \cup Digits \cup Whitespace)
    IN  Strip(CollapseWs(s3))

canonicalize_surface(s) ==
    LET s1 == Strip(Lower(s))
        s2 == SpaceFor(s1, {"-", "/"})
        s3 == [i \in 1..Len(s2) |->
                 IF s2[i] \in LowerLetters \cup Digits \cup Whitespace
                 THEN s2[i] ELSE " "]
    IN  Strip(CollapseWs(s3))

\* \b at the gap before position p of s (p in 1..Len(s)+1)
WordBoundary(s, p) ==
    LET before == p > 1 /\ s[p - 1] \in WordChars
        after == p <= Len(s) /\ s[p] \in WordChars
    IN  before # after

AllIn(s, from, to, set) == \A i \in from..to : s[i] \in set

\* the unit (mm|cm|m) stands at position p of s and \b follows it
UnitAt(s, p) ==
    \E u \in MeasUnits :
        /\ p + Len(u) - 1 <= Len(s)
        /\ SubSeq(s, p, p + Len(u) - 1) = u
        /\ WordBoundary(s, p + Len(u))

\* \s*(mm|cm|m)\b from position p on
SpaceThenUnit(s, p) ==
    \E q \in p..(Len(s) + 1) :
        /\ AllIn(s, p, q - 1, Whitespace)
        /\ q <= Len(s)
        /\ UnitAt(s, q)

\* bool(MEAS_RE.search(s))
is_measurement_like(s) ==
    \E i \in 1..Len(s) : \E j \in i..Len(s) :
        /\ WordBoundary(s, i)
        /\ AllIn(s, i, j, Digits)
        /\ \/ SpaceThenUnit(s, j + 1)
           \/ /\ j + 1 <= Len(s)
              /\ s[j + 1] = "."
              /\ \E f \in (j + 2)..Len(s) :
                    /\ AllIn(s, j + 2, f, Digits)
                    /\ SpaceThenUnit(s, f + 1)

LastN(toks, n) == SubSeq(toks, Len(toks) - n + 1, Len(toks))

\* key=lambda x: (-len(x.split()), x)
HeadKeyLess(x, y) ==
    LET nx == Len(SplitWs(x))
        ny == Len(SplitWs(y))
    IN  nx > ny \/ (nx = ny /\ StrLess(x, y))

\* sorted(set(cands), key=...)
RECURSIVE SortedHeads(_)
SortedHeads(S) ==
    IF S = {} THEN <<>>
    ELSE LET m == CHOOSE x \in S : \A y \in S \ {x} : HeadKeyLess(x, y)
         IN  <<m>> \o SortedHeads(S \ {m})

\* sorted(set(...)) of str
RECURSIVE SortedStrs(_)
SortedStrs(S) ==
    IF S = {} THEN <<>>
    ELSE LET m == CHOOSE x \in S : \A y \in S \ {x} : StrLess(x, y)
         IN  <<m>> \o SortedStrs(S \ {m})

\* head_candidates without the laterality/severity pass
head_candidates_stop_only(canonical) ==
    LET toks == SelectSeq(SplitWs(canonical),
                          LAMBDA t : t # <<>> /\ t \notin STOP)
        cands == (IF Len(toks) >= 1 THEN {toks[Len(toks)]} ELSE {})
                 \cup (IF Len(toks) >= 2 THEN {JoinSp(LastN(toks, 2))} ELSE {})
                 \cup (IF Len(toks) >= 3 THEN {JoinSp(LastN(toks, 3))} ELSE {})
    IN  SortedHeads(cands)

head_candidates(canonical) ==
    LET toks0 == SelectSeq(SplitWs(canonical),
                           LAMBDA t : t # <<>> /\ t \notin STOP)
        toks == SelectSeq(toks0,
                          LAMBDA t : t \notin LATERAL /\ t \notin SEVERITY)
        cands == (IF Len(toks) >= 1 THEN {toks[Len(toks)]} ELSE {})
                 \cup (IF Len(toks) >= 2 THEN {JoinSp(LastN(toks, 2))} ELSE {})
                 \cup (IF Len(toks) >= 3 THEN {JoinSp(LastN(toks, 3))} ELSE {})
    IN  SortedHeads(cands)

Range(seq) == {seq[i] : i \in 1..Len(seq)}

\* list.index(x), 0-based
IndexOf(lst, x) == (CHOOSE i \in 1..Len(lst) :
                       lst[i] = x /\ \A j \in 1..(i - 1) : lst[j] # x) - 1

\* _rank_candidate with the source rank always 0
_rank_candidate_no_sab_rank(cand) ==
    LET ktype_rank == KEYTYPE_PRIORITY(cand.matched_key_type)
        ispref_rank == IF cand.ispref = FlagY THEN 0 ELSE 1
        tty_rank == IF cand.tty \in PreferredTtys THEN 0 ELSE 1
    IN  <<ktype_rank, ispref_rank, 0, tty_rank,
          cand.sab, cand.tty, cand.cui>>

\* _rank_candidate without its last component, the CUI
_rank_candidate_no_cui(cand) ==
    LET ktype_rank == KEYTYPE_PRIORITY(cand.matched_key_type)
        ispref_rank == IF cand.ispref = FlagY THEN 0 ELSE 1
        sab_rank ==
            IF sab_preference # None
            THEN IF cand.sab \in Range(sab_preference[1])
                 THEN IndexOf(sab_preference[1], cand.sab)
                 ELSE 999
            ELSE 0
        tty_rank == IF cand.tty \in PreferredTtys THEN 0 ELSE 1
    IN  <<ktype_rank, ispref_rank, sab_rank, tty_rank,
          cand.sab, cand.tty, <<>>>>

_rank_candidate(cand) ==
    LET ktype_rank == KEYTYPE_PRIORITY(cand.matched_key_type)
        ispref_rank == IF cand.ispref = FlagY THEN 0 ELSE 1
        sab_rank ==
            IF sab_preference # None
            THEN IF cand.sab \in Range(sab_preference[1])
                 THEN IndexOf(sab_preference[1], cand.sab)
                 ELSE 999
            ELSE 0
        tty_rank == IF cand.tty \in PreferredTtys THEN 0 ELSE 1
    IN  <<ktype_rank, ispref_rank, sab_rank, tty_rank,
          cand.sab, cand.tty, cand.cui>>

\* a < b for two rank tuples (Python's tuple comparison)
RankLess(a, b) ==
    \E i \in 1..7 :
        /\ \A j \in 1..(i - 1) : a[j] = b[j]
        /\ IF i <= 4 THEN a[i] < b[i] ELSE StrLess(a[i], b[i])

\* list.sort(key=self._rank_candidate): stable, ascending
RECURSIVE SortByRank(_)
SortByRank(cands) ==
    IF cands = <<>> THEN <<>>
    ELSE LET rest == SortByRank(SubSeq(cands, 1, Len(cands) - 1))
             x == cands[Len(cands)]
             \* x goes behind every element that is not greater than it
             n == Cardinality({i \in 1..Len(rest) :
                     ~RankLess(_rank_candidate(x), _rank_candidate(rest[i]))})
         IN  SubSeq(rest, 1, n) \o <<x>> \o SubSeq(rest, n + 1, Len(rest))

\* dict.get(cui, [])
TuisOf(cui) == IF cui \in DOMAIN cui_to_tuis THEN cui_to_tuis[cui] ELSE {}

_apply_mrsty_filter(cui, target_type) ==
    IF ~use_mrsty_filter THEN TRUE
    ELSE IF target_type = ANATOMY
         THEN TuisOf(cui) \cap anatomy_tuis # {}
    ELSE IF target_type = OBSERVATION
         THEN TuisOf(cui) \cap observation_tuis # {}
    ELSE TRUE

\* keys_unique without the "k not in seen" test
RECURSIVE UniqueKeysNoSeen(_, _)
UniqueKeysNoSeen(keys, seen) ==
    IF keys = <<>> THEN <<>>
    ELSE IF Head(keys)[2] # <<>>
         THEN <<Head(keys)>> \o UniqueKeysNoSeen(Tail(keys), seen)
         ELSE UniqueKeysNoSeen(Tail(keys), seen)

\* keys_unique without the "k and" test: the empty string is kept
RECURSIVE UniqueKeysEmptyKept(_, _)
UniqueKeysEmptyKept(keys, seen) ==
    IF keys = <<>> THEN <<>>
    ELSE LET k == Head(keys)[2]
         IN  IF k \notin seen
             THEN <<Head(keys)>> \o UniqueKeysEmptyKept(Tail(keys), seen \cup {k})
             ELSE UniqueKeysEmptyKept(Tail(keys), seen)

\* keys_unique: drop empty strings and strings already seen, keep the order
RECURSIVE UniqueKeys(_, _)
UniqueKeys(keys, seen) ==
    IF keys = <<>> THEN <<>>
    ELSE LET k == Head(keys)[2]
         IN  IF k # <<>> /\ k \notin seen
             THEN <<Head(keys)>> \o UniqueKeys(Tail(keys), seen \cup {k})
             ELSE UniqueKeys(Tail(keys), seen)

build_keys(mention_norm, types_seen) ==
    LET m_can == canonicalize_surface(mention_norm)
        meas == is_measurement_like(m_can)
        heads == head_candidates(m_can)
        keys == <<<<"full_norm", mention_norm>>>>
                \o (IF m_can # <<>> /\ m_can # mention_norm
                    THEN <<<<"full_can", m_can>>>> ELSE <<>>)
                \o [i \in 1..Len(heads) |-> <<"head", heads[i]>>]
    IN  [canonical |-> m_can,
         is_measurement |-> meas,
         keys |-> UniqueKeys(keys, {}),
         types_seen |-> SortedStrs(Range(types_seen))]

----------------------------------------------------------------------------
(* UMLSExactMatcher.map_mentions_to_cui, one step per loop iteration *)

EmptyMap == [k \in {} |-> <<>>]

\* dict.get(k, default) and defaultdict(list)[k]
Get(map, k, default) == IF k \in DOMAIN map THEN map[k] ELSE default

Put(map, k, v) == [x \in DOMAIN map \cup {k} |-> IF x = k THEN v ELSE map[x]]

config == <<mrconso, sab_preference, top_k, use_mrsty_filter, cui_to_tuis,
            anatomy_tuis, observation_tuis>>
pipeline == <<all_entities, entities_with_cui>>
textvars == <<text, text_out>>
scanvars == <<alias_to_candidates, seen_pairs, handle>>

\* only the mentions that occur once in the list
UniqueMentionsUnrepeated(ms) ==
    SortedStrs({m \in Range(ms) :
                  Cardinality({i \in 1..Len(ms) : ms[i] = m}) = 1})

\* the batch as it was passed, repetitions included
UniqueMentionsRepeated(ms) == ms

\* unique_mentions = sorted(set(mentions))
UniqueMentionsOf(ms) == SortedStrs(Range(ms))

\* entry of map_mentions_to_cui up to the head of the first loop, in a fresh
\* frame: the locals assigned later hold nothing yet
StartCall(ms, mt) ==
    /\ mentions' = ms
    /\ mention_types' = mt
    /\ mention_keys' = EmptyMap
    /\ key_to_mentions' = EmptyMap
    /\ unique_mentions' = UniqueMentionsOf(ms)
    /\ idx' = 1
    /\ alias_to_candidates' = EmptyMap
    /\ seen_pairs' = {}
    /\ handle' = 0
    /\ mention2cui' = EmptyMap
    /\ pc' = "key"

\* key_to_mentions[k].append((m, ktype)) for every key of m
RECURSIVE RegisterKeys(_, _, _)
RegisterKeys(map, m, keys) ==
    IF keys = <<>> THEN map
    ELSE LET ktype == Head(keys)[1]
             k == Head(keys)[2]
         IN  RegisterKeys(Put(map, k, Append(Get(map, k, <<>>), <<m, ktype>>)),
                          m, Tail(keys))

\* one iteration of "for m in unique_mentions" (first loop)
KeyMention ==
    /\ pc = "key"
    /\ idx <= Len(unique_mentions)
    /\ LET m == unique_mentions[idx]
           keys_info == build_keys(m, Get(mention_types, m, <<>>))
       IN  /\ mention_keys' = Put(mention_keys, m, keys_info)
           /\ key_to_mentions' = RegisterKeys(key_to_mentions, m, keys_info.keys)
    /\ idx' = idx + 1
    /\ UNCHANGED <<pc, config, pipeline, textvars, scanvars, mentions,
                   mention_types, unique_mentions, mention2cui, last_call>>

\* the first loop is over: open(self.mrconso_path) succeeds
OpenFile ==
    /\ pc = "key"
    /\ idx > Len(unique_mentions)
    /\ mrconso # None
    /\ alias_to_candidates' = EmptyMap
    /\ seen_pairs' = {}
    /\ handle' = 0
    /\ pc' = "scan"
    /\ UNCHANGED <<config, pipeline, textvars, mentions, mention_types,
                   unique_mentions, mention_keys, key_to_mentions, idx,
                   mention2cui, last_call>>

\* the first loop is over: open(self.mrconso_path) raises
OpenFails ==
    /\ pc = "key"
    /\ idx > Len(unique_mentions)
    /\ mrconso = None
    /\ pc' = "error"
    /\ UNCHANGED <<config, pipeline, textvars, scanvars, mentions,
                   mention_types, unique_mentions, mention_keys,
                   key_to_mentions, idx, mention2cui, last_call>>

\* line.rstrip("\n")
RECURSIVE RStripNewline(_)
RStripNewline(line) ==
    IF line # <<>> /\ line[Len(line)] = "\n"
    THEN RStripNewline(SubSeq(line, 1, Len(line) - 1))
    ELSE line

\* the fields the scan reads from a split line (0-based positions of the code)
Row(parts) ==
    [cui |-> parts[1], lat |-> parts[2], ispref |-> parts[7],
     sab |-> parts[12], tty |-> parts[13], str |-> parts[15]]

\* the surface string taken into the key as well
SeenKeyWithStr(mention_norm, row) ==
    <<mention_norm, row.cui, row.sab, row.tty, row.str>>

\* key = (mention_norm, cui, sab, tty)
SeenKey(mention_norm, row) == <<mention_norm, row.cui, row.sab, row.tty>>

Candidate(row, s_key, ktype) ==
    [cui |-> row.cui, sab |-> row.sab, tty |-> row.tty, ispref |-> row.ispref,
     str |-> row.str, matched_key |-> s_key, matched_key_type |-> ktype]

\* the scan without "if mention_keys[mention_norm]['is_measurement']: continue"
SkipsMentionNever(mention_norm) == FALSE

\* the scan skips every request of a measurement-like mention
SkipsMention(mention_norm) == mention_keys[mention_norm].is_measurement

\* the loop over the requests where a row whose key was seen takes the place
\* of the candidate recorded under that key
RECURSIVE ScanRequestsLastRow(_, _, _, _)
ScanRequestsLastRow(reqs, row, s_key, acc) ==
    IF reqs = <<>> THEN acc
    ELSE LET mention_norm == Head(reqs)[1]
             ktype == Head(reqs)[2]
             key == SeenKey(mention_norm, row)
             cand == Candidate(row, s_key, ktype)
             old == Get(acc.buckets, mention_norm, <<>>)
             next ==
                IF SkipsMention(mention_norm) THEN acc
                ELSE IF key \in acc.seen
                THEN [seen |-> acc.seen,
                      buckets |->
                        Put(acc.buckets, mention_norm,
                            [n \in 1..Len(old) |->
                                IF SeenKey(mention_norm, old[n]) = key
                                THEN cand ELSE old[n]])]
                ELSE [seen |-> acc.seen \cup {key},
                      buckets |->
                        Put(acc.buckets, mention_norm, Append(old, cand))]
         IN  ScanRequestsLastRow(Tail(reqs), row, s_key, next)

\* "for mention_norm, ktype in key_to_mentions[s_key]" over the state
\* acc = [seen |-> seen_pairs, buckets |-> alias_to_candidates]
RECURSIVE ScanRequests(_, _, _, _)
ScanRequests(reqs, row, s_key, acc) ==
    IF reqs = <<>> THEN acc
    ELSE LET mention_norm == Head(reqs)[1]
             ktype == Head(reqs)[2]
             key == SeenKey(mention_norm, row)
             next ==
                IF SkipsMention(mention_norm) THEN acc
                ELSE IF key \in acc.seen THEN acc
                ELSE [seen |-> acc.seen \cup {key},
                      buckets |->
                        Put(acc.buckets, mention_norm,
                            Append(Get(acc.buckets, mention_norm, <<>>),
                                   Candidate(row, s_key, ktype)))]
         IN  ScanRequests(Tail(reqs), row, s_key, next)

\* the body of the scan loop without "if lat != 'ENG': continue"
ScanOneLineAnyLanguage(line, acc) ==
    LET parts == SplitOn(RStripNewline(line), "|")
    IN  IF Len(parts) < 15 THEN acc
        ELSE LET row == Row(parts)
                 s_key == canonicalize_surface(row.str)
             IN  IF s_key \notin DOMAIN key_to_mentions THEN acc
                 ELSE ScanRequests(key_to_mentions[s_key], row, s_key, acc)

\* the body of "for line in handle" for one line
ScanOneLine(line, acc) ==
    LET parts == SplitOn(RStripNewline(line), "|")
    IN  IF Len(parts) < 15 THEN acc
        ELSE LET row == Row(parts)
                 s_key == canonicalize_surface(row.str)
             IN  IF row.lat # ENG THEN acc
                 ELSE IF s_key \notin DOMAIN key_to_mentions THEN acc
                 ELSE ScanRequests(key_to_mentions[s_key], row, s_key, acc)

\* one iteration of "for line in handle"
ScanLine ==
    /\ pc = "scan"
    /\ handle < Len(mrconso[1])
    /\ LET acc == ScanOneLine(mrconso[1][handle + 1],
                              [seen |-> seen_pairs,
                               buckets |-> alias_to_candidates])
       IN  /\ seen_pairs' = acc.seen
           /\ alias_to_candidates' = acc.buckets
    /\ handle' = handle + 1
    /\ UNCHANGED <<pc, config, pipeline, textvars, mentions, mention_types,
                   unique_mentions, mention_keys, key_to_mentions, idx,
                   mention2cui, last_call>>

\* the scan stops behind the first line of a file that has one
CloseFileAfterFirstLine ==
    /\ pc = "scan"
    /\ handle = (IF Len(mrconso[1]) > 0 THEN 1 ELSE 0)
    /\ mention2cui' = EmptyMap
    /\ idx' = 1
    /\ pc' = "finish"
    /\ UNCHANGED <<config, pipeline, textvars, scanvars, mentions,
                   mention_types, unique_mentions, mention_keys,
                   key_to_mentions, last_call>>

\* end of file: the with-block closes, mention2cui = {}
CloseFile ==
    /\ pc = "scan"
    /\ handle = Len(mrconso[1])
    /\ mention2cui' = EmptyMap
    /\ idx' = 1
    /\ pc' = "finish"
    /\ UNCHANGED <<config, pipeline, textvars, scanvars, mentions,
                   mention_types, unique_mentions, mention_keys,
                   key_to_mentions, last_call>>

MEASUREMENT_LIKE ==
    <<"m","e","a","s","u","r","e","m","e","n","t","_","l","i","k","e">>

\* a mention without type hints passes no candidate
PassesFilterHintsRequired(cand, types_here) ==
    \E i \in 1..Len(types_here) :
        _apply_mrsty_filter(cand.cui, types_here[i])

\* ok = any(self._apply_mrsty_filter(cui, t) for t in types_here) if types_here
PassesFilter(cand, types_here) ==
    IF types_here # <<>>
    THEN \E i \in 1..Len(types_here) :
            _apply_mrsty_filter(cand.cui, types_here[i])
    ELSE TRUE

Filtered(cands, types_here) ==
    SelectSeq(cands, LAMBDA cand : PassesFilter(cand, types_here))

\* lst[:k + 1]
SlicePrefixOffByOne(lst, k) ==
    SubSeq(lst, 1, IF k + 1 < Len(lst) THEN k + 1 ELSE Len(lst))

\* lst[:k]
SlicePrefix(lst, k) ==
    IF k >= 0
    THEN SubSeq(lst, 1, IF k < Len(lst) THEN k ELSE Len(lst))
    ELSE SubSeq(lst, 1, IF Len(lst) + k > 0 THEN Len(lst) + k ELSE 0)

\* the second loop without its measurement branch
ExcludesMentionNever(m_info) == FALSE

\* is this mention answered with the measurement exclusion
ExcludesMention(m_info) == m_info.is_measurement

\* best taken from the last retained candidate
BestCuiLast(top) == IF top # <<>> THEN Some(top[Len(top)].cui) ELSE None

\* best = top[0]["cui"] if top else None
BestCui(top) == IF top # <<>> THEN Some(top[1].cui) ELSE None

\* the body of "for m in unique_mentions" (second loop): the result of m
FinishOne(m) ==
    LET m_info == mention_keys[m]
        types_here == m_info.types_seen
        cands == Get(alias_to_candidates, m, <<>>)
        filtered == SortByRank(Filtered(cands, types_here))
        top == SlicePrefix(filtered, top_k)
        best == BestCui(top)
    IN  IF ExcludesMention(m_info)
        THEN [best_cui |-> None, candidates |-> <<>>,
              types_seen |-> types_here,
              excluded_reason |-> Some(MEASUREMENT_LIKE)]
        ELSE [best_cui |-> best, candidates |-> top,
              types_seen |-> types_here, excluded_reason |-> None]

\* the second loop sorting the mention's bucket itself, not a copy of it
FinishMentionSortingBucket ==
    /\ pc = "finish"
    /\ idx <= Len(unique_mentions)
    /\ mention2cui' = Put(mention2cui, unique_mentions[idx],
                          FinishOne(unique_mentions[idx]))
    /\ alias_to_candidates' =
          IF unique_mentions[idx] \in DOMAIN alias_to_candidates
          THEN Put(alias_to_candidates, unique_mentions[idx],
                   SortByRank(alias_to_candidates[unique_mentions[idx]]))
          ELSE alias_to_candidates
    /\ idx' = idx + 1
    /\ UNCHANGED <<pc, config, pipeline, textvars, seen_pairs, handle,
                   mentions, mention_types, unique_mentions, mention_keys,
                   key_to_mentions, last_call>>

\* one iteration of "for m in unique_mentions" (second loop)
FinishMention ==
    /\ pc = "finish"
    /\ idx <= Len(unique_mentions)
    /\ mention2cui' = Put(mention2cui, unique_mentions[idx],
                          FinishOne(unique_mentions[idx]))
    /\ idx' = idx + 1
    /\ UNCHANGED <<pc, config, pipeline, textvars, scanvars, mentions,
                   mention_types, unique_mentions, mention_keys,
                   key_to_mentions, last_call>>

\* return mention2cui
Return ==
    /\ pc = "finish"
    /\ idx > Len(unique_mentions)
    /\ pc' = "done"
    /\ UNCHANGED <<config, pipeline, textvars, scanvars, mentions,
                   mention_types, unique_mentions, mention_keys,
                   key_to_mentions, idx, mention2cui, last_call>>

\* the steps of one call, whoever made it
MatcherStep ==
    \/ KeyMention
    \/ OpenFile
    \/ OpenFails
    \/ ScanLine
    \/ CloseFile
    \/ FinishMention
    \/ Return

----------------------------------------------------------------------------
(* Inputs: reference rows, mention batches *)

MaxMentions == 2        \* longest mention list passed to one call
MaxRows == 2            \* most lines in the reference file

Bars(n) == [i \in 1..n |-> "|"]

\* one MRCONSO.RRF line: CUI|LAT|TS|LUI|STT|SUI|ISPREF|AUI|SAUI|SCUI|SDUI|
\* SAB|TTY|CODE|STR|SRL|SUPPRESS|CVF| with the unread fields left empty
MrconsoLine(cui, lat, ispref, sab, tty, str) ==
    cui \o Bars(1) \o lat \o Bars(5) \o ispref \o Bars(5) \o sab \o Bars(1)
        \o tty \o Bars(2) \o str \o Bars(4) \o <<"\n">>

sPneumonia == <<"p","n","e","u","m","o","n","i","a">>
sPneumoniaCap == <<"P","n","e","u","m","o","n","i","a">>
sLobarPneumonia == <<"l","o","b","a","r"," ">> \o sPneumonia
sLobarPneumoniaCap == <<"L","o","b","a","r"," ">> \o sPneumonia
s2cmPneumonia == <<"2"," ","c","m"," ">> \o sPneumonia

C0032285 == <<"C","0","0","3","2","2","8","5">>
C0032286 == <<"C","0","0","3","2","2","8","6">>
C0032300 == <<"C","0","0","3","2","3","0","0">>
NCI == <<"N","C","I">>
PT == <<"P","T">>
ET == <<"E","T">>
FlagN == <<"N">>

RowSnomedPt == MrconsoLine(C0032285, ENG, FlagY, SNOMEDCT_US, PT, sPneumonia)
RowMshEt == MrconsoLine(C0032286, ENG, FlagN, MSH, ET, sPneumonia)
\* the (CUI, source, term type) of RowSnomedPt again, not preferred
RowSnomedPtAgain ==
    MrconsoLine(C0032285, ENG, FlagN, SNOMEDCT_US, PT, sPneumoniaCap)
RowLobar ==
    MrconsoLine(C0032300, ENG, FlagY, SNOMEDCT_US, PT, sLobarPneumoniaCap)
\* a source that is not in the default preference list
RowNci == MrconsoLine(C0032285, ENG, FlagY, NCI, PT, sPneumoniaCap)

RowPool == {RowSnomedPt, RowMshEt, RowSnomedPtAgain, RowLobar, RowNci}
sEffusion == <<"e","f","f","u","s","i","o","n">>

MentionPool == {sPneumoniaCap, sEffusion, sLobarPneumonia, s2cmPneumonia}

SeqsUpTo(S, n) == UNION {[1..k -> S] : k \in 0..n}

\* the file at mrconso_path: missing, or any MaxRows lines of the pool
Files == {None} \cup {Some(f) : f \in SeqsUpTo(RowPool, MaxRows)}
MentionLists == SeqsUpTo(MentionPool, MaxMentions)
TopKs == {0, 1, DefaultTopK}
SabPreferenceArgs == {None}

\* the type hints the caller passes for a batch
TypesFor(ms) ==
    [m \in Range(ms) \ {s2cmPneumonia} |->
        IF m = sLobarPneumonia THEN <<OBSERVATION, ANATOMY, OBSERVATION>>
        ELSE <<OBSERVATION>>]

----------------------------------------------------------------------------
(* Specification: one matcher, one call *)

\* __init__ with every argument given; an omitted Optional argument is None
ConstructedWith(file, sab_arg, k, use_filter, c2t_arg, anat_arg, obs_arg) ==
    /\ mrconso = file
    /\ sab_preference = InitSabPreference(sab_arg)
    /\ top_k = k
    /\ use_mrsty_filter = use_filter
    /\ cui_to_tuis = (IF c2t_arg = None THEN EmptyMap ELSE c2t_arg[1])
    /\ anatomy_tuis = (IF anat_arg = None THEN {} ELSE anat_arg[1])
    /\ observation_tuis = (IF obs_arg = None THEN {} ELSE obs_arg[1])

\* the state after UMLSExactMatcher(path, sab_preference, top_k) returned:
\* the filter arguments keep their defaults
Constructed(file, sab_arg, k) ==
    ConstructedWith(file, sab_arg, k, FALSE, None, None, None)

NoCallYet ==
    /\ mentions = <<>>
    /\ mention_types = EmptyMap
    /\ unique_mentions = <<>>
    /\ mention_keys = EmptyMap
    /\ key_to_mentions = EmptyMap
    /\ alias_to_candidates = EmptyMap
    /\ seen_pairs = {}
    /\ handle = 0
    /\ idx = 0
    /\ mention2cui = EmptyMap
    /\ last_call = None

Init ==
    /\ pc = "init"
    /\ \E file \in Files, sab_arg \in SabPreferenceArgs, k \in TopKs :
          Constructed(file, sab_arg, k)
    /\ NoCallYet
    /\ all_entities = <<>>
    /\ entities_with_cui = <<>>
    /\ text = <<>>
    /\ text_out = None

\* a caller invokes map_mentions_to_cui(mentions, mention_types)
Call ==
    /\ pc = "init"
    /\ \E ms \in MentionLists : StartCall(ms, TypesFor(ms))
    /\ UNCHANGED <<config, pipeline, textvars, last_call>>

Next == Call \/ MatcherStep

Spec == Init /\ [][Next]_vars

----------------------------------------------------------------------------
(* Specification: the same data grounded again, in another order *)

RerunRowPool == {RowSnomedPt, RowSnomedPtAgain, RowMshEt}
RerunMentionPool == {sPneumoniaCap, sLobarPneumonia}
RerunFiles == {None} \cup {Some(f) : f \in SeqsUpTo(RerunRowPool, MaxRows)}
RerunMentionLists == SeqsUpTo(RerunMentionPool, MaxMentions)

\* the sequences that hold the elements of seq in any order
Reorderings(seq) ==
    LET n == Len(seq)
        perms == {p \in [1..n -> 1..n] : \A i, j \in 1..n : p[i] = p[j] => i = j}
    IN  {[i \in 1..n |-> seq[p[i]]] : p \in perms}

RerunInit ==
    /\ pc = "init"
    /\ \E file \in RerunFiles, k \in TopKs : Constructed(file, None, k)
    /\ NoCallYet
    /\ all_entities = <<>>
    /\ entities_with_cui = <<>>
    /\ text = <<>>
    /\ text_out = None

\* what the finished call was given and what it returned
FinishedCall ==
    [mentions |-> mentions, mention_types |-> mention_types,
     mrconso |-> mrconso, result |-> mention2cui]

FirstCall ==
    /\ pc = "init"
    /\ \E ms \in RerunMentionLists : StartCall(ms, TypesFor(ms))
    /\ UNCHANGED <<config, pipeline, textvars, last_call>>

\* the matcher is called again, on any batch
CallAgain ==
    /\ pc = "done"
    /\ \E ms \in RerunMentionLists : StartCall(ms, TypesFor(ms))
    /\ last_call' = Some(FinishedCall)
    /\ UNCHANGED <<config, pipeline, textvars>>

\* the same batch is grounded against the same rows in another file order
CallOnReorderedFile ==
    /\ pc = "done"
    /\ \E f \in Reorderings(mrconso[1]) :
          /\ f # mrconso[1]
          /\ mrconso' = Some(f)
    /\ StartCall(mentions, mention_types)
    /\ last_call' = Some(FinishedCall)
    /\ UNCHANGED <<sab_preference, top_k, use_mrsty_filter, cui_to_tuis,
                   anatomy_tuis, observation_tuis, pipeline, textvars>>

RerunNext == FirstCall \/ MatcherStep \/ CallAgain \/ CallOnReorderedFile

RerunSpec == RerunInit /\ [][RerunNext]_vars

----------------------------------------------------------------------------
(* Specification of the text layer: the functions applied to one string *)

MaxTokens == 4          \* most words in an input text

sSmall == <<"s","m","a","l","l">>
sLeft == <<"l","e","f","t">>
sPleural == <<"p","l","e","u","r","a","l">>
sOf == <<"o","f">>
sXray == <<"X","-","r","a","y">>

WordPool == {sSmall, sLeft, sPleural, sEffusion, sOf, sXray}
Texts == {JoinSp(ws) : ws \in SeqsUpTo(WordPool, MaxTokens)}
TypeHintLists == {<<>>, <<OBSERVATION, ANATOMY, OBSERVATION>>}

TextInit ==
    /\ pc = "text"
    /\ text \in Texts
    /\ text_out = None
    /\ Constructed(None, None, DefaultTopK)
    /\ NoCallYet
    /\ all_entities = <<>>
    /\ entities_with_cui = <<>>

Applied(fn, arg, out) ==
    /\ pc = "text"
    /\ pc' = "applied"
    /\ text_out' = Some([fn |-> fn, arg |-> arg, out |-> out])
    /\ UNCHANGED <<config, pipeline, text, mentions, mention_types,
                   unique_mentions, mention_keys, key_to_mentions, scanvars,
                   idx, mention2cui, last_call>>

ApplyNormalize == Applied("normalize_text", text, normalize_text(text))

ApplyCanonicalize ==
    Applied("canonicalize_surface", text, canonicalize_surface(text))

ApplyIsMeasurementLike ==
    Applied("is_measurement_like", text, is_measurement_like(text))

\* head_candidates is called on canonical forms (build_keys)
ApplyHeadCandidates ==
    Applied("head_candidates", canonicalize_surface(text),
            head_candidates(canonicalize_surface(text)))

ApplyBuildKeys ==
    \E types \in TypeHintLists :
        Applied("build_keys", text, build_keys(text, types))

TextNext ==
    \/ ApplyNormalize
    \/ ApplyCanonicalize
    \/ ApplyIsMeasurementLike
    \/ ApplyHeadCandidates
    \/ ApplyBuildKeys

TextSpec == TextInit /\ [][TextNext]_vars

----------------------------------------------------------------------------
(* Specification of the text layer over all short strings of a few characters *)

MaxChars == 4           \* longest input string, in characters

\* a letter of each case, a digit, two kinds of whitespace, punctuation
CharPool == {"a", "B", "1", " ", "\t", ".", "-", "/"}
CharTexts == SeqsUpTo(CharPool, MaxChars)

CharInit ==
    /\ pc = "text"
    /\ text \in CharTexts
    /\ text_out = None
    /\ Constructed(None, None, DefaultTopK)
    /\ NoCallYet
    /\ all_entities = <<>>
    /\ entities_with_cui = <<>>

CharSpec == CharInit /\ [][TextNext]_vars

----------------------------------------------------------------------------
(* run_pipeline: collect_mentions, the matcher call, enrich_entities_with_cui *)

MaxDocs == 2            \* most documents in one pipeline run
MaxEntities == 1        \* most entities in one document

\* all the entities of all documents, in iteration order
RECURSIVE Flatten(_)
Flatten(docs) ==
    IF docs = <<>> THEN <<>> ELSE Head(docs) \o Flatten(Tail(docs))

\* "if ent.text and ent.text.strip()"
IsCollected(ent) == ent.text # <<>> /\ Strip(ent.text) # <<>>

\* collect_mentions: <<mentions_raw, mention_types>>
collect_mentions(docs) ==
    LET ents == SelectSeq(Flatten(docs), IsCollected)
        mentions_raw == [i \in 1..Len(ents) |-> normalize_text(ents[i].text)]
        types_of(m) ==
            {ents[i].etype : i \in {j \in 1..Len(ents) : mentions_raw[j] = m}}
    IN  <<mentions_raw,
          [m \in Range(mentions_raw) |-> SortedStrs(types_of(m))]>>

\* the lookup by the raw entity text
EnrichLookupKeyRaw(ent_text) == ent_text

\* m_norm = UMLSExactMatcher.normalize_text(ent.text)
EnrichLookupKey(ent_text) == normalize_text(ent_text)

\* the enriched record of one entity
EnrichOne(ent, m2c) ==
    LET m_norm == EnrichLookupKey(ent.text)
        info == Get(m2c, m_norm, [best_cui |-> None, candidates |-> <<>>])
    IN  [text |-> ent.text, etype |-> ent.etype, start |-> ent.start,
         end |-> ent.end, cui |-> info.best_cui,
         cui_candidates |-> info.candidates]

enrich_entities_with_cui(docs, m2c) ==
    [d \in 1..Len(docs) |->
        [i \in 1..Len(docs[d]) |-> EnrichOne(docs[d][i], m2c)]]

\* mentions, mention_types = collect_mentions(all_entities)
CollectMentions ==
    /\ pc = "pipeline"
    /\ mentions' = collect_mentions(all_entities)[1]
    /\ mention_types' = collect_mentions(all_entities)[2]
    /\ pc' = "collected"
    /\ UNCHANGED <<config, pipeline, textvars, scanvars, unique_mentions,
                   mention_keys, key_to_mentions, idx, mention2cui, last_call>>

\* matcher = UMLSExactMatcher(str(mrconso_path)); matcher.map_mentions_to_cui
PipelineCall ==
    /\ pc = "collected"
    /\ StartCall(mentions, mention_types)
    /\ UNCHANGED <<config, pipeline, textvars, last_call>>

\* entities_with_cui = enrich_entities_with_cui(all_entities, mention2cui)
Enrich ==
    /\ pc = "done"
    /\ entities_with_cui' = enrich_entities_with_cui(all_entities, mention2cui)
    /\ pc' = "enriched"
    /\ UNCHANGED <<config, all_entities, textvars, scanvars, mentions,
                   mention_types, unique_mentions, mention_keys,
                   key_to_mentions, idx, mention2cui, last_call>>

sConsolidation == <<"c","o","n","s","o","l","i","d","a","t","i","o","n">>
sConsolidationCap == <<"C","o","n","s","o","l","i","d","a","t","i","o","n",".">>
C0521530 == <<"C","0","5","2","1","5","3","0">>
RowConsolidation ==
    MrconsoLine(C0521530, ENG, FlagY, SNOMEDCT_US, PT, sConsolidation)

\* what the extractor may return for one entity: text, type, offsets
EntityPool ==
    { [text |-> sConsolidation, etype |-> OBSERVATION,
       start |-> Some(0), end |-> Some(0)],
      [text |-> sConsolidationCap, etype |-> ANATOMY,
       start |-> Some(4), end |-> Some(5)],
      [text |-> sPneumoniaCap, etype |-> OBSERVATION,
       start |-> None, end |-> None],
      [text |-> <<" ">>, etype |-> OBSERVATION,
       start |-> Some(7), end |-> Some(7)] }

Documents == SeqsUpTo(EntityPool, MaxEntities)
PipelineFiles == {None, Some(<<RowMshEt, RowConsolidation, RowSnomedPt>>)}

PipelineInit ==
    /\ pc = "pipeline"
    /\ all_entities \in SeqsUpTo(Documents, MaxDocs)
    /\ entities_with_cui = <<>>
    /\ \E file \in PipelineFiles : Constructed(file, None, DefaultTopK)
    /\ NoCallYet
    /\ text = <<>>
    /\ text_out = None

PipelineNext == CollectMentions \/ PipelineCall \/ MatcherStep \/ Enrich

PipelineSpec == PipelineInit /\ [][PipelineNext]_vars

----------------------------------------------------------------------------
(* Specification: the pipeline over files with lines the scan skips *)

SPA == <<"S","P","A">>
sDot == <<".">>
sHyphen == <<"-">>

\* a line of 14 fields: it ends behind the field before STR
RowShort ==
    C0032286 \o Bars(1) \o ENG \o Bars(5) \o FlagY \o Bars(5) \o MSH
        \o Bars(1) \o PT \o Bars(1) \o sPneumonia \o <<"\n">>
\* a line of exactly 15 fields: it ends with STR
RowFifteen ==
    C0032300 \o Bars(1) \o ENG \o Bars(5) \o FlagY \o Bars(5) \o MSH
        \o Bars(1) \o PT \o Bars(2) \o sPneumonia \o <<"\n">>
RowSpanish == MrconsoLine(C0032286, SPA, FlagY, MSH, PT, sPneumonia)
\* an English row whose string canonicalizes to the empty string
RowHyphen == MrconsoLine(C0521530, ENG, FlagY, SNOMEDCT_US, PT, sHyphen)

ScanRowPool == {RowSnomedPt, RowShort, RowFifteen, RowSpanish, RowHyphen}
ScanFiles == {None} \cup {Some(f) : f \in SeqsUpTo(ScanRowPool, MaxRows)}

\* entity texts: one that normalizes to "", an empty one, an ordinary one
ScanEntityPool ==
    { [text |-> sDot, etype |-> OBSERVATION, start |-> Some(0), end |-> Some(0)],
      [text |-> <<>>, etype |-> OBSERVATION, start |-> Some(1), end |-> Some(1)],
      [text |-> sPneumoniaCap, etype |-> OBSERVATION,
       start |-> Some(2), end |-> Some(2)] }

\* documents of one entity each
ScanDocuments == {<<ent>> : ent \in ScanEntityPool}

ScanInit ==
    /\ pc = "pipeline"
    /\ all_entities \in SeqsUpTo(ScanDocuments, MaxDocs)
    /\ entities_with_cui = <<>>
    /\ \E file \in ScanFiles : Constructed(file, None, DefaultTopK)
    /\ NoCallYet
    /\ text = <<>>
    /\ text_out = None

ScanSpec == ScanInit /\ [][PipelineNext]_vars

----------------------------------------------------------------------------
(* Specification: matchers constructed with every kind of configuration *)

T047 == <<"T","0","4","7">>
T023 == <<"T","0","2","3">>
\* a type hint that is neither "ANATOMY" nor "OBSERVATION"
sDevice == <<"D","E","V","I","C","E">>

\* cui_to_tuis as a caller supplies it
PneumoniaTuis ==
    [cui \in {C0032285, C0032286} |->
        IF cui = C0032285 THEN {T047} ELSE {T023}]

\* (cui_to_tuis, anatomy_tuis, observation_tuis): all omitted, or all given
FilterArgs ==
    { <<None, None, None>>,
      <<Some(PneumoniaTuis), Some({T023}), Some({T047})>> }

ConfigSabPreferenceArgs == {None, Some(<<>>), Some(<<MSH, NCI>>)}
ConfigRowPool == {RowSnomedPt, RowMshEt, RowNci}
ConfigFiles == {None} \cup {Some(f) : f \in SeqsUpTo(ConfigRowPool, MaxRows)}
ConfigMentionLists == SeqsUpTo({sPneumoniaCap}, MaxMentions)
ConfigTypeHints ==
    { <<>>, <<ANATOMY>>, <<OBSERVATION>>, <<sDevice>>,
      <<sDevice, ANATOMY>> }

\* mention_types: no entry at all, or the same hints for every mention
ConfigTypesFor(ms) ==
    {EmptyMap} \cup {[m \in Range(ms) |-> h] : h \in ConfigTypeHints}

ConfigInit ==
    /\ pc = "init"
    /\ \E file \in ConfigFiles, sab_arg \in ConfigSabPreferenceArgs,
          use_filter \in BOOLEAN, fa \in FilterArgs :
          ConstructedWith(file, sab_arg, DefaultTopK, use_filter,
                          fa[1], fa[2], fa[3])
    /\ NoCallYet
    /\ all_entities = <<>>
    /\ entities_with_cui = <<>>
    /\ text = <<>>
    /\ text_out = None

ConfigCall ==
    /\ pc = "init"
    /\ \E ms \in ConfigMentionLists :
          \E mt \in ConfigTypesFor(ms) : StartCall(ms, mt)
    /\ UNCHANGED <<config, pipeline, textvars, last_call>>

ConfigNext == ConfigCall \/ MatcherStep

ConfigSpec == ConfigInit /\ [][ConfigNext]_vars

----------------------------------------------------------------------------
(* Claims about one call of map_mentions_to_cui (Spec) *)

Min(a, b) == IF a < b THEN a ELSE b

NoDuplicates(seq) == \A i, j \in 1..Len(seq) : seq[i] = seq[j] => i = j

s35cm == <<"3",".","5"," ","c","m">>
s10mm == <<"1","0","m","m">>
s2m == <<"2"," ","m">>

\* the canonical form of the mention is measurement-like
MeasurementLikeMention(m) == is_measurement_like(canonicalize_surface(m))

\* line i of the file is an English row whose canonical string is a key
\* that mention m asked for
RowMatchesMention(i, m) ==
    LET parts == SplitOn(RStripNewline(mrconso[1][i]), "|")
    IN  /\ Len(parts) >= 15
        /\ Row(parts).lat = ENG
        /\ \E j \in 1..Len(mention_keys[m].keys) :
              mention_keys[m].keys[j][2] = canonicalize_surface(Row(parts).str)

\* C1: a mention whose canonical form is measurement-like ("3.5 cm", "10mm",
\* "2 m", ...) gets best_cui = None, candidates = [] and excluded_reason =
\* "measurement_like", whatever the reference file holds, also when one of
\* its keys matches admissible rows.
C1_MeasurementExcluded ==
    /\ MeasurementLikeMention(s35cm)
    /\ MeasurementLikeMention(s10mm)
    /\ MeasurementLikeMention(s2m)
    /\ \A m \in DOMAIN mention2cui :
          MeasurementLikeMention(m) =>
              /\ mention2cui[m].best_cui = None
              /\ mention2cui[m].candidates = <<>>
              /\ mention2cui[m].excluded_reason = Some(MEASUREMENT_LIKE)

\* C1 witness: "2 cm pneumonia" was answered with the exclusion although a
\* scanned English row matches its head key "pneumonia"
C1_Witness ==
    /\ pc = "done"
    /\ s2cmPneumonia \in DOMAIN mention2cui
    /\ mention2cui[s2cmPneumonia].excluded_reason = Some(MEASUREMENT_LIKE)
    /\ \E i \in 1..handle : RowMatchesMention(i, s2cmPneumonia)

\* the rank of a source: its position in the preference list, and behind
\* every listed source when it is not listed
C2_SourceRank(sab) ==
    IF sab \in Range(sab_preference[1])
    THEN IndexOf(sab_preference[1], sab)
    ELSE Len(sab_preference[1])

\* the sort key the ranking is specified with
C2_Key(c) ==
    << CASE c.matched_key_type = "full_norm" -> 0
         [] c.matched_key_type = "full_can" -> 1
         [] c.matched_key_type = "head" -> 2
         [] OTHER -> 9,
       IF c.ispref = FlagY THEN 0 ELSE 1,
       C2_SourceRank(c.sab),
       IF c.tty \in {<<"P","T">>, <<"P","N">>, <<"H","T">>, <<"M","H">>}
       THEN 0 ELSE 1,
       c.sab, c.tty, c.cui >>

\* a <= b on sort keys, component by component in the listed order
C2_KeyLeq(a, b) ==
    \/ a = b
    \/ \E i \in 1..7 :
          /\ \A j \in 1..(i - 1) : a[j] = b[j]
          /\ IF i <= 4 THEN a[i] < b[i] ELSE StrLess(a[i], b[i])

\* C2: the candidate list returned for a mention is ascending in (key-kind
\* rank, preferred rank, source rank, term-type rank, source, term type,
\* CUI); in particular two candidates equal on key kind and preferred flag
\* whose sources are at different positions of the preference list are in
\* the order of these positions.
C2_RankedAscending ==
    \A m \in DOMAIN mention2cui :
        LET cs == mention2cui[m].candidates
        IN  \A i, j \in 1..Len(cs) :
              i < j =>
                /\ C2_KeyLeq(C2_Key(cs[i]), C2_Key(cs[j]))
                /\ ( /\ cs[i].matched_key_type = cs[j].matched_key_type
                     /\ (cs[i].ispref = FlagY) = (cs[j].ispref = FlagY)
                     /\ cs[i].sab # cs[j].sab
                     /\ {cs[i].sab, cs[j].sab} \subseteq Range(sab_preference[1]) )
                   => IndexOf(sab_preference[1], cs[i].sab)
                        < IndexOf(sab_preference[1], cs[j].sab)

\* C2 witness: two candidates of one mention, equal on key kind and
\* preferred flag, were gathered MSH first and are returned SNOMEDCT_US first
C2_Witness ==
    /\ pc = "done"
    /\ sPneumoniaCap \in DOMAIN mention2cui
    /\ Len(mention2cui[sPneumoniaCap].candidates) = 2
    /\ alias_to_candidates[sPneumoniaCap][1].sab = MSH
    /\ mention2cui[sPneumoniaCap].candidates[1].sab = SNOMEDCT_US
    /\ mention2cui[sPneumoniaCap].candidates[2].sab = MSH
    /\ mention2cui[sPneumoniaCap].candidates[1].ispref
          = mention2cui[sPneumoniaCap].candidates[2].ispref

\* the candidates of m that pass the filter, ranked
C3_Ranked(m) ==
    SortByRank(Filtered(Get(alias_to_candidates, m, <<>>),
                        mention_keys[m].types_seen))

\* C3: for top_k >= 0 the returned list is the first min(top_k, n) elements
\* of the ranked list of the n surviving candidates: with more than top_k
\* survivors exactly top_k are retained, and best_cui is the CUI of the
\* first retained candidate.
C3_TopKTruncation ==
    \A m \in DOMAIN mention2cui :
        (top_k >= 0 /\ ~MeasurementLikeMention(m)) =>
            LET ranked == C3_Ranked(m)
                n == Len(ranked)
                cs == mention2cui[m].candidates
            IN  /\ Len(cs) = Min(top_k, n)
                /\ Len(cs) <= top_k
                /\ n > top_k => Len(cs) = top_k
                /\ \A i \in 1..Len(cs) : cs[i] = ranked[i]
                /\ cs # <<>> => mention2cui[m].best_cui = Some(cs[1].cui)

\* C3 witness: top_k = 1, a mention with two surviving candidates keeps one
C3_Witness ==
    /\ pc = "done"
    /\ top_k = 1
    /\ \E m \in DOMAIN mention2cui :
          /\ Len(C3_Ranked(m)) = 2
          /\ Len(mention2cui[m].candidates) = 1
          /\ mention2cui[m].best_cui = Some(C3_Ranked(m)[1].cui)

\* C4: in every result best_cui is None exactly when the candidate list is
\* empty and is candidates[0].cui otherwise; a mention that is not
\* measurement-like and has no surviving candidate has best_cui = None and
\* excluded_reason = None, so excluded_reason = "measurement_like" holds
\* exactly for the measurement-like mentions.
C4_BestCuiAndReason ==
    \A m \in DOMAIN mention2cui :
        LET r == mention2cui[m]
        IN  /\ (r.best_cui = None) <=> (r.candidates = <<>>)
            /\ r.candidates # <<>> => r.best_cui = Some(r.candidates[1].cui)
            /\ r.excluded_reason \in {None, Some(MEASUREMENT_LIKE)}
            /\ (r.excluded_reason = Some(MEASUREMENT_LIKE))
                  <=> MeasurementLikeMention(m)
            /\ (~MeasurementLikeMention(m) /\ C3_Ranked(m) = <<>>) =>
                  r.best_cui = None /\ r.excluded_reason = None

\* C4 witness: one result map holds both outcomes: a measurement-like
\* mention excluded although a scanned row matches one of its keys, and a
\* mention without any match, with best_cui = None and no exclusion reason
C4_Witness ==
    /\ pc = "done"
    /\ \E m \in DOMAIN mention2cui :
          /\ mention2cui[m].excluded_reason = Some(MEASUREMENT_LIKE)
          /\ mention2cui[m].best_cui = None
          /\ \E i \in 1..handle : RowMatchesMention(i, m)
    /\ \E m \in DOMAIN mention2cui :
          /\ mention2cui[m].excluded_reason = None
          /\ mention2cui[m].best_cui = None
          /\ \A i \in 1..handle : ~RowMatchesMention(i, m)

\* C7: with the default configuration and a file holding the two English
\* "pneumonia" rows C0032285 (SNOMEDCT_US, PT, preferred) and C0032286 (MSH,
\* ET, not preferred) in either order, "Pneumonia" is grounded to C0032285,
\* ranked before C0032286.
C7_EndToEnd ==
    ( /\ pc = "done"
      /\ top_k = DefaultTopK
      /\ sab_preference = Some(DefaultSabPreference)
      /\ ~use_mrsty_filter
      /\ mrconso \in {Some(<<RowSnomedPt, RowMshEt>>),
                      Some(<<RowMshEt, RowSnomedPt>>)}
      /\ sPneumoniaCap \in Range(mentions) )
    => /\ sPneumoniaCap \in DOMAIN mention2cui
       /\ mention2cui[sPneumoniaCap].best_cui = Some(C0032285)
       /\ Len(mention2cui[sPneumoniaCap].candidates) = 2
       /\ mention2cui[sPneumoniaCap].candidates[1].cui = C0032285
       /\ mention2cui[sPneumoniaCap].candidates[2].cui = C0032286

\* C7 witness: the MSH row comes first in the file and "Pneumonia" is
\* still grounded to C0032285
C7_Witness ==
    /\ pc = "done"
    /\ top_k = DefaultTopK
    /\ sab_preference = Some(DefaultSabPreference)
    /\ mrconso = Some(<<RowMshEt, RowSnomedPt>>)
    /\ mentions = <<sPneumoniaCap>>
    /\ mention2cui[sPneumoniaCap].best_cui = Some(C0032285)

\* every key of every unique mention is registered in the shared key map
C13_AllKeysRegistered ==
    /\ DOMAIN mention_keys = Range(unique_mentions)
    /\ \A m \in DOMAIN mention_keys :
          \A i \in 1..Len(mention_keys[m].keys) :
             LET k == mention_keys[m].keys[i]
             IN  /\ k[2] \in DOMAIN key_to_mentions
                 /\ <<m, k[1]>> \in Range(key_to_mentions[k[2]])

\* what one step of a call may do to the scan
C13_Step ==
    /\ (pc # "scan" /\ pc' = "scan") =>
          /\ pc = "key"
          /\ C13_AllKeysRegistered
          /\ handle' = 0
    /\ (pc = "scan" /\ pc' = "scan") => handle' = handle + 1
    /\ (pc = "scan" /\ pc' # "scan") =>
          /\ pc' = "finish"
          /\ handle = Len(mrconso[1])
    /\ pc \in {"finish", "done"} =>
          /\ pc' \in {"finish", "done"}
          /\ handle' = handle
          /\ alias_to_candidates' = alias_to_candidates

\* C13: in one call the reference file is opened and scanned exactly once:
\* the scan starts only when the keys of every unique mention are built and
\* registered, it reads the lines one by one to the end, no mention gets a
\* result before the scan has finished, and nothing is read again while the
\* mentions are finished.
C13_SingleScan ==
    /\ [](mention2cui # EmptyMap =>
            /\ pc \in {"finish", "done"}
            /\ handle = Len(mrconso[1]))
    /\ [][C13_Step]_vars

\* C13 witness: a batch of two mentions was answered from one pass over a
\* file of two lines, both mentions with a candidate
C13_Witness ==
    /\ pc = "done"
    /\ Len(unique_mentions) = 2
    /\ mrconso # None
    /\ Len(mrconso[1]) = 2
    /\ handle = 2
    /\ \A m \in Range(unique_mentions) :
          /\ m \in DOMAIN mention2cui
          /\ mention2cui[m].best_cui # None

\* what one step of a call may do to the records of a mention
C14_Step ==
    /\ (pc = "key" /\ pc' = "key") =>
          /\ unique_mentions[idx] \notin DOMAIN mention_keys
          /\ DOMAIN mention_keys'
                = DOMAIN mention_keys \cup {unique_mentions[idx]}
    /\ (pc = "finish" /\ pc' = "finish") =>
          /\ unique_mentions[idx] \notin DOMAIN mention2cui
          /\ unique_mentions[idx] \in DOMAIN mention_keys
          /\ DOMAIN mention2cui'
                = DOMAIN mention2cui \cup {unique_mentions[idx]}
    /\ pc # "init" =>
          /\ \A m \in DOMAIN mention_keys :
                m \in DOMAIN mention_keys' /\ mention_keys'[m] = mention_keys[m]
          /\ \A m \in DOMAIN mention2cui :
                m \in DOMAIN mention2cui' /\ mention2cui'[m] = mention2cui[m]

\* C14: every unique mention of a batch is processed exactly once and ends
\* in one terminal state: it is keyed once and gets one result, which is
\* never rewritten; a measurement-like mention gathers no candidate and ends
\* excluded, any other mention ends with excluded_reason None; at the return
\* the result map has one entry per unique mention and no other entry.
C14_OncePerMention ==
    /\ [](pc = "done" =>
            /\ DOMAIN mention2cui = Range(mentions)
            /\ Len(unique_mentions) = Cardinality(Range(mentions))
            /\ \A m \in DOMAIN mention2cui :
                  IF MeasurementLikeMention(m)
                  THEN /\ m \notin DOMAIN alias_to_candidates
                       /\ mention2cui[m].excluded_reason
                             = Some(MEASUREMENT_LIKE)
                  ELSE mention2cui[m].excluded_reason = None)
    /\ [][C14_Step]_vars

\* C14 witness: a batch that names one mention twice returned one entry
C14_Witness ==
    /\ pc = "done"
    /\ Len(mentions) = 2
    /\ mentions[1] = mentions[2]
    /\ Cardinality(DOMAIN mention2cui) = 1
    /\ mention2cui[mentions[1]].best_cui # None

----------------------------------------------------------------------------
(* Claims about repeated calls (RerunSpec) *)

\* C5: for a fixed reference file and configuration the returned map is the
\* same (same best_cui, same ordered candidates per mention) for every
\* permutation of the mention list and any number of repetitions of a
\* mention in it.
C5_MentionOrderIrrelevant ==
    ( /\ pc = "done"
      /\ last_call # None
      /\ last_call[1].mrconso = mrconso
      /\ last_call[1].mention_types = mention_types
      /\ Range(last_call[1].mentions) = Range(mentions) )
    => mention2cui = last_call[1].result

\* C5 witness: the batch of the previous call in reverse order, two mentions
\* that ask for the same key, grounded to the same non-empty result
C5_Witness ==
    /\ pc = "done"
    /\ last_call # None
    /\ last_call[1].mrconso = mrconso
    /\ Len(mentions) = 2
    /\ mentions[1] # mentions[2]
    /\ last_call[1].mentions = <<mentions[2], mentions[1]>>
    /\ \A m \in Range(mentions) : mention2cui[m].best_cui # None
    /\ mention2cui = last_call[1].result

\* C6: for a fixed batch and configuration, best_cui and the ordered
\* candidate list of every mention are the same for every permutation of
\* the rows of the reference file.
C6_RowOrderIrrelevant ==
    ( /\ pc = "done"
      /\ last_call # None
      /\ last_call[1].mentions = mentions
      /\ last_call[1].mention_types = mention_types
      /\ last_call[1].mrconso # None
      /\ mrconso \in {Some(f) : f \in Reorderings(last_call[1].mrconso[1])} )
    => \A m \in DOMAIN mention2cui :
          /\ mention2cui[m].best_cui = last_call[1].result[m].best_cui
          /\ mention2cui[m].candidates = last_call[1].result[m].candidates

----------------------------------------------------------------------------
(* Claims about the text layer (TextSpec) *)

AppliedFn(fn) == pc = "applied" /\ text_out[1].fn = fn

sPleuralEffusion == sPleural \o <<" ">> \o sEffusion
sSmallLeftPleuralEffusion ==
    sSmall \o <<" ">> \o sLeft \o <<" ">> \o sPleuralEffusion

\* the tokens of canonical that are no stopword, laterality or severity term
C8_Remaining(canonical) ==
    SelectSeq(SplitWs(canonical),
              LAMBDA t : t \notin STOP \cup LATERAL \cup SEVERITY)

\* C8: head_candidates(canonical) drops every stopword, laterality and
\* severity/certainty token and returns exactly the trailing 1-, 2- and
\* 3-token windows of the remaining tokens (a window only when that many
\* remain), without duplicates, by descending token count then ascending
\* lexicographically; "small left pleural effusion" gives
\* ["pleural effusion", "effusion"], and no remaining token gives [].
C8_HeadCandidates ==
    AppliedFn("head_candidates") =>
        LET canonical == text_out[1].arg
            out == text_out[1].out
            rem == C8_Remaining(canonical)
        IN  /\ Range(out) =
                 {JoinSp(LastN(rem, n)) : n \in 1..Min(3, Len(rem))}
            /\ NoDuplicates(out)
            /\ \A i, j \in 1..Len(out) :
                  i < j =>
                    \/ Len(SplitWs(out[i])) > Len(SplitWs(out[j]))
                    \/ /\ Len(SplitWs(out[i])) = Len(SplitWs(out[j]))
                       /\ StrLess(out[i], out[j])
            /\ canonical = sSmallLeftPleuralEffusion =>
                  out = <<sPleuralEffusion, sEffusion>>
            /\ rem = <<>> => out = <<>>

\* C8 witness: head_candidates ran on "small left pleural effusion" and
\* dropped "small" and "left"
C8_Witness ==
    /\ AppliedFn("head_candidates")
    /\ text_out[1].arg = sSmallLeftPleuralEffusion
    /\ text_out[1].out = <<sPleuralEffusion, sEffusion>>

\* priority of a key kind: full_norm before full_can before head
C9_Priority(kind) ==
    CASE kind = "full_norm" -> 1 [] kind = "full_can" -> 2 [] kind = "head" -> 3

\* the kinds that produce the string k for a mention
C9_Producers(k, mention, canonical) ==
    (IF k = mention THEN {"full_norm"} ELSE {})
    \cup (IF k = canonical /\ canonical # mention THEN {"full_can"} ELSE {})
    \cup (IF k \in Range(head_candidates(canonical)) THEN {"head"} ELSE {})

\* C9: the key list of build_keys (1) holds no empty string and no string
\* twice, (2) lists the kinds in the order full_norm, full_can, head,
\* (3) starts with (full_norm, mention) when the mention is non-empty,
\* (4) holds (full_can, canonical) exactly when canonical is non-empty and
\* differs from the mention, and (5) gives a string produced by several
\* kinds the kind of its first occurrence, the highest-priority one.
C9_BuildKeys ==
    AppliedFn("build_keys") =>
        LET mention == text_out[1].arg
            canonical == text_out[1].out.canonical
            keys == text_out[1].out.keys
            strs == [i \in 1..Len(keys) |-> keys[i][2]]
        IN  /\ canonical = canonicalize_surface(mention)
            /\ \A i \in 1..Len(keys) : strs[i] # <<>>
            /\ NoDuplicates(strs)
            /\ \A i, j \in 1..Len(keys) :
                  i < j => C9_Priority(keys[i][1]) <= C9_Priority(keys[j][1])
            /\ mention # <<>> => keys # <<>> /\ keys[1] = <<"full_norm", mention>>
            /\ (<<"full_can", canonical>> \in Range(keys))
                  <=> (canonical # <<>> /\ canonical # mention)
            /\ \A i \in 1..Len(keys) :
                  keys[i][1] = "full_can" => strs[i] = canonical
            /\ \A i \in 1..Len(keys) :
                  LET prod == C9_Producers(strs[i], mention, canonical)
                  IN  /\ keys[i][1] \in prod
                      /\ \A kind \in prod :
                            C9_Priority(keys[i][1]) <= C9_Priority(kind)
            /\ \A k \in {mention, canonical} \cup Range(head_candidates(canonical)) :
                  k # <<>> /\ C9_Producers(k, mention, canonical) # {}
                      => k \in Range(strs)

\* C9 witness: build_keys ran on a mention with a full_can key where a head
\* candidate repeated an earlier key and was dropped
C9_Witness ==
    /\ AppliedFn("build_keys")
    /\ LET keys == text_out[1].out.keys
           canonical == text_out[1].out.canonical
       IN  /\ Len(keys) >= 3
           /\ keys[2] = <<"full_can", canonical>>
           /\ canonical \in Range(head_candidates(canonical))
           /\ keys[3][1] = "head"

----------------------------------------------------------------------------
(* Claims about the pipeline (PipelineSpec) *)

\* the positions <<document, entity>> of all_entities
C10_Positions ==
    {<<d, i>> \in (1..Len(all_entities)) \X (1..MaxEntities + 1) :
        i <= Len(all_entities[d])}

\* C10: across the documents, entities with the same normalized text are
\* one mention of the batch, grounded once, and each such entity's enriched
\* record carries the same CUI and the same ranked candidates while keeping
\* its own text, type and offsets.
C10_CrossDocumentDedup ==
    pc = "enriched" =>
        /\ NoDuplicates(unique_mentions)
        /\ DOMAIN mention2cui = Range(unique_mentions)
        /\ \A p \in C10_Positions :
              LET ent == all_entities[p[1]][p[2]]
                  rec == entities_with_cui[p[1]][p[2]]
                  m == normalize_text(ent.text)
              IN  /\ rec.text = ent.text
                  /\ rec.etype = ent.etype
                  /\ rec.start = ent.start
                  /\ rec.end = ent.end
                  /\ IsCollected(ent) =>
                        /\ m \in DOMAIN mention2cui
                        /\ rec.cui = mention2cui[m].best_cui
                        /\ rec.cui_candidates = mention2cui[m].candidates
        /\ \A p, q \in C10_Positions :
              LET e1 == all_entities[p[1]][p[2]]
                  e2 == all_entities[q[1]][q[2]]
                  r1 == entities_with_cui[p[1]][p[2]]
                  r2 == entities_with_cui[q[1]][q[2]]
              IN  normalize_text(e1.text) = normalize_text(e2.text) =>
                      r1.cui = r2.cui /\ r1.cui_candidates = r2.cui_candidates

\* C10 witness: two documents hold "consolidation" with different raw
\* texts; both enriched records carry the CUI found for the one mention
C10_Witness ==
    /\ pc = "enriched"
    /\ Len(all_entities) = 2
    /\ all_entities[1] # <<>> /\ all_entities[2] # <<>>
    /\ all_entities[1][1].text = sConsolidation
    /\ all_entities[2][1].text = sConsolidationCap
    /\ unique_mentions = <<sConsolidation>>
    /\ entities_with_cui[1][1].cui = Some(C0521530)
    /\ entities_with_cui[2][1].cui = Some(C0521530)
    /\ entities_with_cui[1][1].text # entities_with_cui[2][1].text

\* C15: a missing or unreadable reference file is fatal and reported before
\* processing: when the run has aborted with the error no key was built or
\* registered, and no grounding result and no enriched output exists. (The
\* run starts with the extracted entities at hand: run_pipeline extracts
\* before it constructs the matcher.)
C15_FatalBeforeProcessing ==
    pc = "error" =>
        /\ mention_keys = EmptyMap
        /\ key_to_mentions = EmptyMap
        /\ mention2cui = EmptyMap
        /\ entities_with_cui = <<>>

----------------------------------------------------------------------------
(* Claims about configured matchers (ConfigSpec) *)

\* the allowed codes of the target category a hint names; a hint of neither
\* category names no code
C11_AllowedCodes(hint) ==
    IF hint = ANATOMY THEN anatomy_tuis
    ELSE IF hint = OBSERVATION THEN observation_tuis
    ELSE {}

\* C11: with the filter enabled and a mention that has at least one type
\* hint, every candidate that is kept has, for at least one of the hints,
\* a type code of its CUI among the allowed codes of the hint's category;
\* a hint of neither category keeps no candidate by itself.
C11_KeptOnlyIfHintIntersects ==
    pc = "done" =>
        \A m \in DOMAIN mention2cui :
            (use_mrsty_filter /\ mention2cui[m].types_seen # <<>>) =>
                \A i \in 1..Len(mention2cui[m].candidates) :
                    \E j \in 1..Len(mention2cui[m].types_seen) :
                        C11_AllowedCodes(mention2cui[m].types_seen[j])
                          \cap TuisOf(mention2cui[m].candidates[i].cui) # {}

\* C12: when the filter is disabled, or the mention has no type hints, the
\* filter removes nothing: the candidates that are ranked are the gathered
\* bucket of the mention (all of them are returned when top_k admits them).
C12_FilterNoOp ==
    pc = "done" =>
        \A m \in DOMAIN mention2cui :
            LET bucket == Get(alias_to_candidates, m, <<>>)
                cs == mention2cui[m].candidates
            IN  ( /\ ~use_mrsty_filter \/ mention2cui[m].types_seen = <<>>
                  /\ mention2cui[m].excluded_reason = None
                  /\ Len(bucket) <= top_k )
                => /\ Len(cs) = Len(bucket)
                   /\ Range(cs) = Range(bucket)

\* C12 witness: the filter is enabled and would reject the CUIs (no type code
\* is known for them), the mention has no hints, and both gathered
\* candidates are returned
C12_Witness ==
    /\ pc = "done"
    /\ use_mrsty_filter
    /\ cui_to_tuis = EmptyMap
    /\ sPneumoniaCap \in DOMAIN mention2cui
    /\ mention2cui[sPneumoniaCap].types_seen = <<>>
    /\ Len(Get(alias_to_candidates, sPneumoniaCap, <<>>)) = 2
    /\ Len(mention2cui[sPneumoniaCap].candidates) = 2

\* the matcher is in the state of one constructed without a preference list
C20_NoListConfigured == sab_preference = InitSabPreference(None)

\* term-type rank, source, term type, CUI: what is left of the sort key when
\* key kind, preferred flag and source rank are equal
C20_RestKey(c) ==
    <<0, 0, 0, IF c.tty \in {<<"P","T">>, <<"P","N">>, <<"H","T">>, <<"M","H">>}
               THEN 0 ELSE 1,
      c.sab, c.tty, c.cui>>

\* the candidates i < j of one result are equal on key kind and preferred flag
C20_EqualOnKindAndFlag(a, b) ==
    /\ a.matched_key_type = b.matched_key_type
    /\ (a.ispref = FlagY) = (b.ispref = FlagY)

\* C20: without a configured preference list (constructed without one, or
\* with none or an empty one) every candidate has source rank 0, so
\* candidates equal on key kind and preferred flag are ordered by term-type
\* rank and then by source, term type and CUI.
C20_NoListRanksZero ==
    ( /\ InitSabPreference(Some(<<>>)) = InitSabPreference(None)
      /\ pc = "done"
      /\ C20_NoListConfigured )
    => \A m \in DOMAIN mention2cui :
          LET cs == mention2cui[m].candidates
          IN  \A i, j \in 1..Len(cs) :
                (i < j /\ C20_EqualOnKindAndFlag(cs[i], cs[j])) =>
                    C2_KeyLeq(C20_RestKey(cs[i]), C20_RestKey(cs[j]))

----------------------------------------------------------------------------
(* Claims about skipped lines and empty mentions (ScanSpec) *)

\* the line the scan reads next, split on the delimiter
C16_NextParts == SplitOn(RStripNewline(mrconso[1][handle + 1]), "|")

\* what reading one line may do
C16_Step ==
    (pc = "scan" /\ handle' = handle + 1) =>
        /\ (Len(C16_NextParts) < 15 \/ C16_NextParts[2] # ENG) =>
              /\ alias_to_candidates' = alias_to_candidates
              /\ seen_pairs' = seen_pairs
              /\ pc' = "scan"
        /\ alias_to_candidates' # alias_to_candidates =>
              /\ Len(C16_NextParts) >= 15
              /\ C16_NextParts[2] = ENG

\* C16: a line of the reference file contributes a candidate only if it
\* splits into at least 15 fields and its language field is exactly ENG; a
\* shorter line or a line of another language is skipped: no bucket
\* changes, the scan goes on with the next line, and no error is raised (the
\* only error of a run is the file that cannot be opened).
C16_SkippedSilently ==
    /\ [](pc = "error" => mrconso = None)
    /\ [][C16_Step]_vars

\* C16 witness: the file is a 14-field line followed by an admissible line;
\* the scan went on behind the short line and the admissible line alone
\* gave the mention its candidate
C16_Witness ==
    /\ pc = "finish"
    /\ mrconso = Some(<<RowShort, RowSnomedPt>>)
    /\ handle = 2
    /\ sPneumonia \in DOMAIN alias_to_candidates
    /\ Len(alias_to_candidates[sPneumonia]) = 1
    /\ alias_to_candidates[sPneumonia][1].cui = C0032285

\* the mention has an empty normalized form
C17_EmptyMention(m) == normalize_text(m) = <<>>

\* C17: a mention whose text (or normalized form) is empty has empty
\* normalized and canonical forms and registers no key; the empty string is
\* never a key of the shared key map; so for every reference file, also
\* with rows whose string canonicalizes to the empty string, it resolves to
\* best_cui = None, excluded_reason = None, candidates = [].
C17_EmptyMentionUnmatched ==
    /\ normalize_text(<<>>) = <<>>
    /\ canonicalize_surface(<<>>) = <<>>
    /\ <<>> \notin DOMAIN key_to_mentions
    /\ \A m \in DOMAIN mention_keys :
          C17_EmptyMention(m) =>
              /\ mention_keys[m].canonical = <<>>
              /\ mention_keys[m].keys = <<>>
              /\ m \notin DOMAIN alias_to_candidates
    /\ \A m \in DOMAIN mention2cui :
          C17_EmptyMention(m) =>
              /\ mention2cui[m].best_cui = None
              /\ mention2cui[m].excluded_reason = None
              /\ mention2cui[m].candidates = <<>>
    /\ pc = "enriched" =>
          \A d \in 1..Len(all_entities) :
             \A i \in 1..Len(all_entities[d]) :
                C17_EmptyMention(all_entities[d][i].text) =>
                    /\ entities_with_cui[d][i].cui = None
                    /\ entities_with_cui[d][i].cui_candidates = <<>>

\* C17 witness: the text "." was collected as the mention "", the file holds
\* a row whose string canonicalizes to "" and a row of "pneumonia"; "" is
\* answered with nothing while "pneumonia" is grounded
C17_Witness ==
    /\ pc = "done"
    /\ mentions = <<<<>>, sPneumonia>>
    /\ all_entities[1][1].text = sDot
    /\ mrconso = Some(<<RowHyphen, RowSnomedPt>>)
    /\ mention2cui[<<>>].best_cui = None
    /\ mention2cui[sPneumonia].best_cui = Some(C0032285)

----------------------------------------------------------------------------
(* Claims about the text functions on arbitrary strings (CharSpec) *)

\* s has no leading, no trailing and no two consecutive whitespace characters
C18_WhitespaceCollapsed(s) ==
    /\ s # <<>> => (s[1] \notin Whitespace /\ s[Len(s)] \notin Whitespace)
    /\ \A i \in 1..(Len(s) - 1) :
          ~(s[i] \in Whitespace /\ s[i + 1] \in Whitespace)

\* C18: for every input string, normalize_text returns a lowercase string of
\* lowercase letters, digits, hyphens and spaces only that is
\* whitespace-collapsed: no leading or trailing whitespace and no two
\* consecutive whitespace characters.
C18_NormalizedForm ==
    AppliedFn("normalize_text") =>
        LET out == text_out[1].out
        IN  /\ out = Lower(out)
            /\ \A i \in 1..Len(out) :
                  out[i] \in LowerLetters \cup Digits \cup {"-", " "}
            /\ C18_WhitespaceCollapsed(out)

\* lowercase, hyphen and slash to space, delete what is not a letter, a digit
\* or whitespace, collapse whitespace, trim
C19_Described(s) ==
    Strip(CollapseWs(
        DeleteOutside(SpaceFor(Lower(s), {"-", "/"}),
                      LowerLetters \cup UpperLetters \cup Digits
                        \cup Whitespace)))

\* C19: for every input string s, canonicalize_surface(s) is s lowercased,
\* with each hyphen and slash replaced by a space, every remaining character
\* that is not a letter, digit or whitespace deleted, whitespace runs
\* collapsed to one space and trimmed; the output holds only lowercase
\* letters, digits and single interior spaces.
C19_CanonicalAsDescribed ==
    AppliedFn("canonicalize_surface") =>
        LET out == text_out[1].out
        IN  /\ out = C19_Described(text_out[1].arg)
            /\ \A i \in 1..Len(out) :
                  out[i] \in LowerLetters \cup Digits \cup {" "}
            /\ C18_WhitespaceCollapsed(out)

\* lowercase, put a space for each hyphen, slash and other character that is
\* not a lowercase letter, a digit or whitespace, collapse whitespace, trim
C19_Replacing(s) ==
    Strip(CollapseWs(
        SpaceFor(Lower(s),
                 {Chars[i] : i \in 1..Len(Chars)}
                    \ (LowerLetters \cup Digits \cup Whitespace))))

\* C19 amended: for every input string s, canonicalize_surface(s) is s
\* lowercased, with each hyphen and slash and every other character that is
\* not a lowercase letter, digit or whitespace replaced by a space (not
\* deleted), whitespace runs collapsed to one space and trimmed; the output
\* holds only lowercase letters, digits and single interior spaces.
C19_CanonicalReplacesBySpace ==
    AppliedFn("canonicalize_surface") =>
        LET out == text_out[1].out
        IN  /\ out = C19_Replacing(text_out[1].arg)
            /\ \A i \in 1..Len(out) :
                  out[i] \in LowerLetters \cup Digits \cup {" "}
            /\ C18_WhitespaceCollapsed(out)

\* C19 witness: "a.B" became "a b": the full stop separates two tokens
C19_Witness ==
    /\ AppliedFn("canonicalize_surface")
    /\ text_out[1].arg = <<"a", ".", "B">>
    /\ text_out[1].out = <<"a", " ", "b">>


----------------------------------------------------------------------------
(* Specification: reference files whose rows repeat a (CUI, source, term type) *)

\* the (CUI, source, term type) of RowLobar again, reached through a head key
RowLobarHead == MrconsoLine(C0032300, ENG, FlagN, SNOMEDCT_US, PT, sPneumonia)
\* RowSnomedPt under another CUI: the two differ in the CUI alone
RowSnomedPtOther ==
    MrconsoLine(C0032286, ENG, FlagY, SNOMEDCT_US, PT, sPneumonia)

DedupRowPool ==
    {RowLobar, RowLobarHead, RowSnomedPt, RowSnomedPtOther, RowSpanish}
DedupFiles == {None} \cup {Some(f) : f \in SeqsUpTo(DedupRowPool, MaxRows)}
DedupMentionPool == {sLobarPneumonia, sPneumoniaCap, s2cmPneumonia}
DedupMentionLists == SeqsUpTo(DedupMentionPool, MaxMentions)

\* the type hints of a batch: none for a measurement, one per other mention
DedupTypesFor(ms) ==
    [m \in Range(ms) \ {s2cmPneumonia} |->
        IF m = sLobarPneumonia THEN <<ANATOMY>> ELSE <<OBSERVATION>>]

DedupInit ==
    /\ pc = "init"
    /\ \E file \in DedupFiles, use_filter \in BOOLEAN :
          ConstructedWith(file, None, DefaultTopK, use_filter,
                          Some(PneumoniaTuis), Some({T023}), Some({T047}))
    /\ NoCallYet
    /\ all_entities = <<>>
    /\ entities_with_cui = <<>>
    /\ text = <<>>
    /\ text_out = None

DedupCall ==
    /\ pc = "init"
    /\ \E ms \in DedupMentionLists : StartCall(ms, DedupTypesFor(ms))
    /\ UNCHANGED <<config, pipeline, textvars, last_call>>

DedupNext == DedupCall \/ MatcherStep

DedupSpec == DedupInit /\ [][DedupNext]_vars


----------------------------------------------------------------------------
(* Claims about the candidate buckets *)

C21_Triple(c) == <<c.cui, c.sab, c.tty>>

C21_NoRepeat(cands) ==
    \A i, j \in 1..Len(cands) :
        i # j => C21_Triple(cands[i]) # C21_Triple(cands[j])

\* reading a line whose (CUI, source, term type) a bucket already holds
\* leaves that bucket as it was
C21_Step ==
    (pc = "scan" /\ handle' = handle + 1) =>
        LET parts == SplitOn(RStripNewline(mrconso[1][handle + 1]), "|")
        IN  \A m \in DOMAIN alias_to_candidates :
                (/\ Len(parts) >= 15
                 /\ \E i \in 1..Len(alias_to_candidates[m]) :
                        C21_Triple(alias_to_candidates[m][i])
                            = <<parts[1], parts[12], parts[13]>>)
                => /\ m \in DOMAIN alias_to_candidates'
                   /\ alias_to_candidates'[m] = alias_to_candidates[m]

\* C21: at every point of the scan and in every result, no mention's bucket
\* holds two candidates with the same (CUI, source, term type); a row whose
\* (mention, CUI, source, term type) is already recorded adds nothing
C21_Deduplicated ==
    /\ [](/\ \A m \in DOMAIN alias_to_candidates :
                C21_NoRepeat(alias_to_candidates[m])
          /\ \A m \in DOMAIN mention2cui :
                C21_NoRepeat(mention2cui[m].candidates))
    /\ [][C21_Step]_vars

\* both rows of a file carry one (CUI, source, term type) under different
\* strings, flags and matched keys; after both were read the mention holds
\* the one candidate
C21_Witness ==
    /\ pc = "done"
    /\ mrconso = Some(<<RowLobar, RowLobarHead>>)
    /\ ~use_mrsty_filter
    /\ sLobarPneumonia \in DOMAIN mention2cui
    /\ Len(mention2cui[sLobarPneumonia].candidates) = 1
    /\ Len(alias_to_candidates[sLobarPneumonia]) = 1


\* candidate c of mention m copies line i of the file, an admissible English
\* row, and names the key of m that the row's string canonicalizes to
C22_CopiesRow(m, c, i) ==
    LET parts == SplitOn(RStripNewline(mrconso[1][i]), "|")
    IN  /\ Len(parts) >= 15
        /\ parts[2] = ENG
        /\ c.cui = parts[1]
        /\ c.sab = parts[12]
        /\ c.tty = parts[13]
        /\ c.ispref = parts[7]
        /\ c.str = parts[15]
        /\ c.matched_key = canonicalize_surface(parts[15])
        /\ <<c.matched_key_type, c.matched_key>>
               \in Range(build_keys(m, <<>>).keys)

C22_SoundIn(m, cands) ==
    \A n \in 1..Len(cands) :
        /\ ~is_measurement_like(canonicalize_surface(m))
        /\ \E i \in 1..handle : C22_CopiesRow(m, cands[n], i)

\* C22: every candidate recorded for a mention copies the fields of one
\* admissible English row already read, its matched_key is that row's
\* canonicalized string and a lookup key of the mention, its
\* matched_key_type is the kind of that key, and the mention is not
\* measurement-like
C22_CandidatesSound ==
    /\ \A m \in DOMAIN alias_to_candidates :
            C22_SoundIn(m, alias_to_candidates[m])
    /\ \A m \in DOMAIN mention2cui :
            C22_SoundIn(m, mention2cui[m].candidates)

\* a batch of a measurement-like mention and an ordinary one, both with the
\* head key "pneumonia", over an English row and a Spanish row of that
\* string: the ordinary mention holds the English row as a head match
C22_Witness ==
    /\ pc = "done"
    /\ mrconso = Some(<<RowSpanish, RowSnomedPt>>)
    /\ unique_mentions = <<s2cmPneumonia, sLobarPneumonia>>
    /\ ~use_mrsty_filter
    /\ Len(mention2cui[sLobarPneumonia].candidates) = 1
    /\ mention2cui[sLobarPneumonia].candidates[1].matched_key_type = "head"
    /\ mention2cui[sLobarPneumonia].candidates[1].matched_key = sPneumonia
    /\ s2cmPneumonia \notin DOMAIN alias_to_candidates


----------------------------------------------------------------------------
(* Specification: the pipeline over entity texts that hold punctuation *)

sLobarSlashPneumonia == <<"L","o","b","a","r","/">> \o sPneumonia
sLobarHyphenPneumonia == <<"L","o","b","a","r","-">> \o sPneumonia
sLobarPneumoniaDot == sLobarPneumoniaCap \o <<".">>

\* entity texts that canonicalize to "lobar pneumonia"
SurfaceEntityPool ==
    { [text |-> sLobarSlashPneumonia, etype |-> OBSERVATION,
       start |-> Some(0), end |-> Some(0)],
      [text |-> sLobarHyphenPneumonia, etype |-> OBSERVATION,
       start |-> Some(1), end |-> Some(1)],
      [text |-> sLobarPneumoniaDot, etype |-> OBSERVATION,
       start |-> Some(2), end |-> Some(2)] }

\* documents of one entity each
SurfaceDocuments == {<<ent>> : ent \in SurfaceEntityPool}
SurfaceFiles ==
    {None} \cup {Some(f) : f \in SeqsUpTo({RowLobar, RowSnomedPt}, MaxRows)}

SurfaceInit ==
    /\ pc = "pipeline"
    /\ all_entities \in SeqsUpTo(SurfaceDocuments, MaxDocs)
    /\ entities_with_cui = <<>>
    /\ \E file \in SurfaceFiles : Constructed(file, None, DefaultTopK)
    /\ NoCallYet
    /\ text = <<>>
    /\ text_out = None

SurfaceSpec == SurfaceInit /\ [][PipelineNext]_vars

\* the entities of the run that collect_mentions takes
C23_Collected == Range(SelectSeq(Flatten(all_entities), IsCollected))

\* line i is an admissible English row whose string is canonically equal to t
C23_RowEquals(i, t) ==
    LET parts == SplitOn(RStripNewline(mrconso[1][i]), "|")
    IN  /\ Len(parts) >= 15
        /\ parts[2] = ENG
        /\ canonicalize_surface(parts[15]) = canonicalize_surface(t)

\* C23: the canonical form the key builder gets from the normalized text of
\* an entity is the canonical form of the text itself, and so, once the scan
\* is over, an entity whose text is canonically equal to the string of an
\* admissible English row (and is not measurement-like) has that row's
\* (CUI, source, term type) in its bucket
C23_NormalizeLosesNoMatch ==
    /\ pc \in {"scan", "finish", "done", "enriched"} =>
        \A ent \in C23_Collected :
            mention_keys[normalize_text(ent.text)].canonical
                = canonicalize_surface(ent.text)
    /\ pc \in {"finish", "done", "enriched"} =>
        \A ent \in C23_Collected :
            \A i \in 1..Len(mrconso[1]) :
                (/\ C23_RowEquals(i, ent.text)
                 /\ ~is_measurement_like(canonicalize_surface(ent.text)))
                => LET parts == SplitOn(RStripNewline(mrconso[1][i]), "|")
                       cands == Get(alias_to_candidates,
                                    normalize_text(ent.text), <<>>)
                   IN  \E n \in 1..Len(cands) :
                          /\ cands[n].cui = parts[1]
                          /\ cands[n].sab = parts[12]
                          /\ cands[n].tty = parts[13]


\* the candidates at two different places of a list have different sort keys
C24_KeysDiffer(cands) ==
    \A i, j \in 1..Len(cands) :
        i # j => _rank_candidate(cands[i]) # _rank_candidate(cands[j])

\* C24: in a mention's bucket, before or after filtering, no two candidates
\* have equal 7-component sort keys, so the ranked list is the same for every
\* order in which the bucket could hold its candidates
C24_StrictTotalOrder ==
    /\ \A m \in DOMAIN alias_to_candidates :
        LET cands == alias_to_candidates[m]
            types_here == mention_keys[m].types_seen
        IN  /\ C24_KeysDiffer(cands)
            /\ C24_KeysDiffer(Filtered(cands, types_here))
            /\ \A p \in Reorderings(cands) :
                  /\ SortByRank(p) = SortByRank(cands)
                  /\ SortByRank(Filtered(p, types_here))
                        = SortByRank(Filtered(cands, types_here))
    /\ \A m \in DOMAIN mention2cui :
        C24_KeysDiffer(mention2cui[m].candidates)

\* a bucket of two candidates whose sort keys agree in every component but
\* the last, appended in descending order of the CUI
C24_Witness ==
    /\ pc = "done"
    /\ mrconso = Some(<<RowSnomedPtOther, RowSnomedPt>>)
    /\ sPneumoniaCap \in DOMAIN alias_to_candidates
    /\ Len(alias_to_candidates[sPneumoniaCap]) = 2
    /\ \A n \in 1..6 :
          _rank_candidate(alias_to_candidates[sPneumoniaCap][1])[n]
              = _rank_candidate(alias_to_candidates[sPneumoniaCap][2])[n]
    /\ ~use_mrsty_filter
    /\ mention2cui[sPneumoniaCap].candidates[1].cui = C0032285
    /\ alias_to_candidates[sPneumoniaCap][1].cui = C0032286


\* line i is an admissible row that yields (m, CUI, source, term type) of c
C25_Produces(i, m, c) ==
    LET parts == SplitOn(RStripNewline(mrconso[1][i]), "|")
    IN  /\ Len(parts) >= 15
        /\ parts[2] = ENG
        /\ <<parts[1], parts[12], parts[13]>> = <<c.cui, c.sab, c.tty>>
        /\ \E n \in 1..Len(mention_keys[m].keys) :
              mention_keys[m].keys[n][2] = canonicalize_surface(parts[15])

\* candidate c of mention m carries what the first producing line gives
C25_FromFirstRow(m, c) ==
    LET producing == {i \in 1..handle : C25_Produces(i, m, c)}
        first == CHOOSE i \in producing : \A j \in producing : i <= j
        parts == SplitOn(RStripNewline(mrconso[1][first]), "|")
        s_key == canonicalize_surface(parts[15])
    IN  /\ producing # {}
        /\ c.ispref = parts[7]
        /\ c.str = parts[15]
        /\ c.matched_key = s_key
        /\ \E n \in 1..Len(mention_keys[m].keys) :
              mention_keys[m].keys[n] = <<c.matched_key_type, s_key>>

\* no step removes, moves or changes a recorded candidate
C25_Step ==
    \A m \in DOMAIN alias_to_candidates :
        /\ m \in DOMAIN alias_to_candidates'
        /\ Len(alias_to_candidates'[m]) >= Len(alias_to_candidates[m])
        /\ SubSeq(alias_to_candidates'[m], 1, Len(alias_to_candidates[m]))
              = alias_to_candidates[m]

\* C25: of several admissible rows with one (mention, CUI, source, term
\* type) the candidate keeps the preferred flag, surface string, matched_key
\* and matched_key_type of the first in file order, and no later row
\* replaces or modifies a recorded candidate
C25_FirstRowRetained ==
    /\ [](/\ \A m \in DOMAIN alias_to_candidates :
                \A n \in 1..Len(alias_to_candidates[m]) :
                    C25_FromFirstRow(m, alias_to_candidates[m][n])
          /\ \A m \in DOMAIN mention2cui :
                \A n \in 1..Len(mention2cui[m].candidates) :
                    C25_FromFirstRow(m, mention2cui[m].candidates[n]))
    /\ [][C25_Step]_vars

\* the first row reaches the mention through a head key and is not
\* preferred, the second has the same (CUI, source, term type), is preferred
\* and equals the mention itself: the head match of the first row stays
C25_Witness ==
    /\ pc = "done"
    /\ mrconso = Some(<<RowLobarHead, RowLobar>>)
    /\ ~use_mrsty_filter
    /\ sLobarPneumonia \in DOMAIN mention2cui
    /\ mention2cui[sLobarPneumonia].candidates =
          <<[cui |-> C0032300, sab |-> SNOMEDCT_US, tty |-> PT,
             ispref |-> FlagN, str |-> sPneumonia,
             matched_key |-> sPneumonia, matched_key_type |-> "head"]>>


\* a step of the finishing phase leaves the key map, the key records, the
\* buckets and the results already written as they are
C26_Step ==
    pc = "finish" =>
        /\ key_to_mentions' = key_to_mentions
        /\ mention_keys' = mention_keys
        /\ alias_to_candidates' = alias_to_candidates
        /\ seen_pairs' = seen_pairs
        /\ \A m \in DOMAIN mention2cui :
              /\ m \in DOMAIN mention2cui'
              /\ mention2cui'[m] = mention2cui[m]

\* C26: after the scan the finishing phase (filter, rank, truncate) changes
\* neither the key map, nor the per-mention key records, nor any bucket, and
\* finishing one mention does not change the result of another: every
\* result written is what the unchanged shared state gives for its mention
C26_FinishReadsOnly ==
    /\ [][C26_Step]_vars
    /\ [](pc \in {"finish", "done"} =>
            \A m \in DOMAIN mention2cui : mention2cui[m] = FinishOne(m))

\* two mentions finished over a bucket order that is not the ranked order,
\* with the filter on: each result is a filtered, sorted copy and the
\* buckets still hold both candidates in file order
C26_Witness ==
    /\ pc = "done"
    /\ use_mrsty_filter
    /\ mrconso = Some(<<RowSnomedPtOther, RowSnomedPt>>)
    /\ unique_mentions = <<sPneumoniaCap, sLobarPneumonia>>
    /\ Len(alias_to_candidates[sPneumoniaCap]) = 2
    /\ alias_to_candidates[sPneumoniaCap][1].cui = C0032286
    /\ Len(mention2cui[sPneumoniaCap].candidates) = 1
    /\ mention2cui[sPneumoniaCap].best_cui = Some(C0032285)
    /\ mention2cui[sLobarPneumonia].best_cui = Some(C0032286)

====
